---- MODULE Spec2Model ----
(***************************************************************************)
(* Model of the noisy density-matrix simulator of the qsharp repository    *)
(* (noisy-simulator/src/density_matrix_simulator.rs and its Python         *)
(* binding pip/src/noisy_simulator.rs).                                     *)
(*                                                                         *)
(* Numbers.  The program computes with f64 and Complex<f64>.  The model    *)
(* computes with exact rationals <<n, d>> (d > 0, lowest terms) and        *)
(* complex numbers <<re, im>> over them, so every comparison against the   *)
(* tolerance is decided exactly.  The tolerance itself is scaled to        *)
(* 1/TolDen so that all cross products stay inside TLC's 32-bit integers.  *)
(***************************************************************************)
EXTENDS Integers, Sequences, FiniteSets, TLC

\* ------------------------------------------------------------------------
\* Exact real arithmetic (f64 in the program)
\* ------------------------------------------------------------------------
Abs(x) == IF x < 0 THEN -x ELSE x

RECURSIVE GCD(_, _)
GCD(a, b) == IF b = 0 THEN a ELSE GCD(b, a % b)

Rat(n, d) == LET g == GCD(Abs(n), d) IN <<n \div g, d \div g>>

Zero == <<0, 1>>
One == <<1, 1>>

RAdd(a, b) == IF a[2] = b[2] THEN Rat(a[1] + b[1], a[2])
              ELSE Rat(a[1] * b[2] + b[1] * a[2], a[2] * b[2])
RNeg(a) == <<-a[1], a[2]>>
RSub(a, b) == RAdd(a, RNeg(b))
RMul(a, b) == IF a[1] = 0 \/ b[1] = 0 THEN Zero ELSE Rat(a[1] * b[1], a[2] * b[2])
RInv(a) == IF a[1] > 0 THEN <<a[2], a[1]>> ELSE <<-a[2], -a[1]>>
RDiv(a, b) == RMul(a, RInv(b))
RAbs(a) == <<Abs(a[1]), a[2]>>
RLt(a, b) == a[1] * b[2] < b[1] * a[2]
RLe(a, b) == a[1] * b[2] <= b[1] * a[2]

\* ------------------------------------------------------------------------
\* Complex<f64>
\* ------------------------------------------------------------------------
Cx(re, im) == <<re, im>>
CZero == <<Zero, Zero>>
COne == <<One, Zero>>
CI == <<Zero, One>>
CAdd(x, y) == <<RAdd(x[1], y[1]), RAdd(x[2], y[2])>>
CMul(x, y) == IF x = CZero \/ y = CZero THEN CZero
              ELSE <<RSub(RMul(x[1], y[1]), RMul(x[2], y[2])),
                     RAdd(RMul(x[1], y[2]), RMul(x[2], y[1]))>>
CConj(x) == <<x[1], RNeg(x[2])>>
CScale(x, r) == <<RMul(x[1], r), RMul(x[2], r)>>
CReal(r) == <<r, Zero>>

\* the crate-wide tolerance constant, 1/TolDen in the model
TolDen == 4
TOLERANCE == <<1, TolDen>>

\* ------------------------------------------------------------------------
\* SquareMatrix: [dim |-> n, m |-> [<<row, col>> |-> Complex]], 0-based
\* ------------------------------------------------------------------------
Idx(n) == 0 .. (n - 1)

RECURSIVE CSumTo(_, _)
\* sum of f[0] .. f[k-1]
CSumTo(f, k) == IF k = 0 THEN CZero ELSE CAdd(CSumTo(f, k - 1), f[k - 1])

Mat(n, rows) == [dim |-> n,
                 m |-> [p \in Idx(n) \X Idx(n) |-> rows[p[1] + 1][p[2] + 1]]]
MatAdd(A, B) == [dim |-> A.dim,
                 m |-> [p \in Idx(A.dim) \X Idx(A.dim) |-> CAdd(A.m[p], B.m[p])]]
MatMul(A, B) == [dim |-> A.dim,
                 m |-> [p \in Idx(A.dim) \X Idx(A.dim) |->
                          CSumTo([k \in Idx(A.dim) |-> CMul(A.m[<<p[1], k>>], B.m[<<k, p[2]>>])],
                                 A.dim)]]
Transpose(A) == [dim |-> A.dim,
                 m |-> [p \in Idx(A.dim) \X Idx(A.dim) |-> A.m[<<p[2], p[1]>>]]]
Adjoint(A) == [dim |-> A.dim,
               m |-> [p \in Idx(A.dim) \X Idx(A.dim) |-> CConj(A.m[<<p[2], p[1]>>])]]
Conjugate(A) == [dim |-> A.dim,
                 m |-> [p \in Idx(A.dim) \X Idx(A.dim) |-> CConj(A.m[p])]]
\* Kronecker product, first factor most significant
Kron(A, B) == [dim |-> A.dim * B.dim,
               m |-> [p \in Idx(A.dim * B.dim) \X Idx(A.dim * B.dim) |->
                        CMul(A.m[<<p[1] \div B.dim, p[2] \div B.dim>>],
                             B.m[<<p[1] % B.dim, p[2] % B.dim>>])]]

RECURSIVE MatSum(_)
MatSum(ms) == IF Len(ms) = 1 THEN ms[1] ELSE MatAdd(ms[1], MatSum(Tail(ms)))

\* ------------------------------------------------------------------------
\* Operation and Instrument (operation.rs, instrument.rs)
\* ------------------------------------------------------------------------
Operation(kraus) ==
    LET effect == MatSum([i \in 1 .. Len(kraus) |-> MatMul(Adjoint(kraus[i]), kraus[i])])
    IN  [kraus_operators |-> kraus,
         effect_matrix |-> effect,
         effect_matrix_transpose |-> Transpose(effect),
         matrix |-> MatSum([i \in 1 .. Len(kraus) |-> Kron(Conjugate(kraus[i]), kraus[i])])]

Instrument(ops) ==
    LET total == MatSum([i \in 1 .. Len(ops) |-> ops[i].effect_matrix])
    IN  [operations |-> ops,
         non_selective_operation_matrix |-> MatSum([i \in 1 .. Len(ops) |-> ops[i].matrix]),
         total_effect_transposed |-> Transpose(total)]

\* ------------------------------------------------------------------------
\* Error (lib.rs)
\* ------------------------------------------------------------------------
NoError == [kind |-> "None", msg |-> "", value |-> Zero]
ProbabilityZeroEvent == [kind |-> "ProbabilityZeroEvent", msg |-> "", value |-> Zero]
FailedToSampleInstrumentOutcome ==
    [kind |-> "FailedToSampleInstrumentOutcome", msg |-> "", value |-> Zero]
NotNormalized(t) == [kind |-> "NotNormalized", msg |-> "", value |-> t]
InvalidState(msg) == [kind |-> "InvalidState", msg |-> msg, value |-> Zero]
KernelError(msg) == [kind |-> "KernelError", msg |-> msg, value |-> Zero]
\* the binding's SimulationError("invalid density matrix") for a rejected record
InvalidDensityMatrix == [kind |-> "InvalidDensityMatrix", msg |-> "invalid density matrix",
                         value |-> Zero]

\* ------------------------------------------------------------------------
\* apply_kernel (kernel.rs): multiply a 2^|axes| matrix into the axes of data
\* ------------------------------------------------------------------------
RECURSIVE Log2(_)
Log2(n) == IF n <= 1 THEN 0 ELSE 1 + Log2(n \div 2)

Bit(i, b) == (i \div (2 ^ b)) % 2

RECURSIVE SubIndex(_, _)
\* the index into M selected by flat index i: the bits of i at axes, first axis
\* most significant
SubIndex(i, axes) ==
    IF axes = <<>> THEN 0
    ELSE Bit(i, Head(axes)) * (2 ^ (Len(axes) - 1)) + SubIndex(i, Tail(axes))

RECURSIVE Replace(_, _, _)
\* flat index i with its bits at axes replaced by the bits of j
Replace(i, axes, j) ==
    IF axes = <<>> THEN i
    ELSE LET k == Len(axes) - 1
             b == Head(axes)
         IN  Replace(i - Bit(i, b) * (2 ^ b) + Bit(j, k) * (2 ^ b), Tail(axes), j % (2 ^ k))

Distinct(axes) == \A i, j \in 1 .. Len(axes) : i # j => axes[i] # axes[j]

apply_kernel(data, M, axes) ==
    IF \E i \in 1 .. Len(axes) : axes[i] >= Log2(Len(data))
    THEN [ok |-> FALSE, err |-> KernelError("axis out of range"), data |-> data]
    ELSE IF ~Distinct(axes)
    THEN [ok |-> FALSE, err |-> KernelError("duplicated axis"), data |-> data]
    ELSE IF M.dim # 2 ^ Len(axes)
    THEN [ok |-> FALSE, err |-> KernelError("matrix dimension"), data |-> data]
    ELSE [ok |-> TRUE, err |-> NoError,
          data |-> [i \in 1 .. Len(data) |->
                      CSumTo([j \in Idx(M.dim) |->
                                CMul(M.m[<<SubIndex(i - 1, axes), j>>],
                                     data[Replace(i - 1, axes, j) + 1])],
                             M.dim)]]

\* ------------------------------------------------------------------------
\* Machine words (usize)
\* ------------------------------------------------------------------------
WordBits == 64

\* `1 << n` on usize when the build does not check overflow: the shift amount
\* is taken modulo the word size
Shl1(n) == 2 ^ (n % WordBits)
\* `1 << n` panics when the build checks overflow and n >= the word size
ShlOverflows(n) == n >= WordBits

\* ------------------------------------------------------------------------
\* DensityMatrix
\* ------------------------------------------------------------------------
NoDM == [dim |-> 0, number_of_qubits |-> 0, trace_change |-> Zero, data |-> <<>>]

DensityMatrix_new(number_of_qubits) ==
    LET dim == Shl1(number_of_qubits)
    IN  [dim |-> dim,
         number_of_qubits |-> number_of_qubits,
         trace_change |-> One,
         data |-> [i \in 1 .. dim * dim |-> IF i = 1 THEN COne ELSE CZero]]

\* Option<DensityMatrix>, or a panic of the shift under overflow checks
try_from(dim, number_of_qubits, trace_change, data, checks) ==
    IF checks /\ ShlOverflows(number_of_qubits)
    THEN [some |-> FALSE, panic |-> TRUE, dm |-> NoDM]
    ELSE IF Shl1(number_of_qubits) # dim \/ Len(data) # dim * dim
    THEN [some |-> FALSE, panic |-> FALSE, dm |-> NoDM]
    ELSE [some |-> TRUE, panic |-> FALSE,
          dm |-> [dim |-> dim, number_of_qubits |-> number_of_qubits,
                  trace_change |-> trace_change, data |-> data]]

\* is_hermitian comparing with >= where the code compares with >
is_hermitian_strict(dm) ==
    \A row \in Idx(dm.dim) : \A col \in Idx(dm.dim) :
        LET elt == dm.data[dm.dim * row + col + 1]
            mirror_elt == dm.data[dm.dim * col + row + 1]
        IN  ~(RLe(TOLERANCE, RAbs(RSub(elt[1], mirror_elt[1])))
              \/ RLe(TOLERANCE, RAbs(RAdd(elt[2], mirror_elt[2]))))

is_hermitian(dm) ==
    \A row \in Idx(dm.dim) : \A col \in Idx(dm.dim) :
        LET elt == dm.data[dm.dim * row + col + 1]
            mirror_elt == dm.data[dm.dim * col + row + 1]
        IN  ~(RLt(TOLERANCE, RAbs(RSub(elt[1], mirror_elt[1])))
              \/ RLt(TOLERANCE, RAbs(RAdd(elt[2], mirror_elt[2]))))

\* the complex sum of the diagonal that trace() accumulates
trace_sum(dm) == CSumTo([idx \in Idx(dm.dim) |-> dm.data[(dm.dim + 1) * idx + 1]], dm.dim)
\* the assert! of trace(): FALSE means the call panics
trace_assert(dm) == RLe(trace_sum(dm)[2], TOLERANCE)
\* trace() returning the first diagonal entry, not the sum of the diagonal
trace_first_entry(dm) == dm.data[1][1]

trace(dm) == trace_sum(dm)[1]

is_normalized(dm) == RLe(RAbs(RSub(trace(dm), One)), TOLERANCE)

\* renormalize_with_trace without `self.trace_change *= trace`
renormalize_with_trace_keeps_trace_change(dm, t) ==
    IF RLt(t, TOLERANCE)
    THEN [ok |-> FALSE, err |-> ProbabilityZeroEvent, dm |-> dm]
    ELSE [ok |-> TRUE, err |-> NoError,
          dm |-> [dm EXCEPT !.data = [i \in 1 .. Len(dm.data) |->
                                        CScale(dm.data[i], RDiv(One, t))]]]

\* renormalize_with_trace with `self.trace_change += trace`
renormalize_with_trace_adding(dm, t) ==
    IF RLt(t, TOLERANCE)
    THEN [ok |-> FALSE, err |-> ProbabilityZeroEvent, dm |-> dm]
    ELSE [ok |-> TRUE, err |-> NoError,
          dm |-> [dm EXCEPT !.trace_change = RAdd(dm.trace_change, t),
                            !.data = [i \in 1 .. Len(dm.data) |->
                                        CScale(dm.data[i], RDiv(One, t))]]]

renormalize_with_trace(dm, t) ==
    IF RLt(t, TOLERANCE)
    THEN [ok |-> FALSE, err |-> ProbabilityZeroEvent, dm |-> dm]
    ELSE LET renormalization_factor == RDiv(One, t)
         IN  [ok |-> TRUE, err |-> NoError,
              dm |-> [dm EXCEPT !.trace_change = RMul(dm.trace_change, t),
                                !.data = [i \in 1 .. Len(dm.data) |->
                                            CScale(dm.data[i], renormalization_factor)]]]

\* renormalize taking the trace to be 1
renormalize_with_unit_trace(dm) == renormalize_with_trace(dm, One)

renormalize(dm) == renormalize_with_trace(dm, trace(dm))

\* apply_operation_matrix that never hands the matrix to the kernel
apply_operation_matrix_skipped(dm, operation_matrix, qubits) ==
    [ok |-> TRUE, err |-> NoError, dm |-> dm]

\* qubits_expanded with the ids shifted by number_of_qubits pushed first
qubits_expanded_shifted_first(number_of_qubits, qubits) ==
    [i \in 1 .. Len(qubits) |-> qubits[i] + number_of_qubits] \o qubits

\* the two `for id in qubits` loops of apply_operation_matrix
qubits_expanded(number_of_qubits, qubits) ==
    qubits \o [i \in 1 .. Len(qubits) |-> qubits[i] + number_of_qubits]

apply_operation_matrix(dm, operation_matrix, qubits) ==
    LET k == apply_kernel(dm.data, operation_matrix,
                          qubits_expanded(dm.number_of_qubits, qubits))
    IN  [ok |-> k.ok, err |-> k.err, dm |-> [dm EXCEPT !.data = k.data]]

\* ------------------------------------------------------------------------
\* DensityMatrixSimulator: state is Result<DensityMatrix, Error>
\* ------------------------------------------------------------------------
OkState(dm) == [ok |-> TRUE, dm |-> dm, err |-> NoError]
ErrState(err) == [ok |-> FALSE, dm |-> NoDM, err |-> err]

\* outcomes of a method: the state it leaves, what it returns, and whether it
\* panicked
Done(st, val) ==
    [state |-> st, ok |-> TRUE, err |-> NoError, val |-> val, panic |-> FALSE]
\* `?` and `return Err(..)`: the error is returned, the state is left alone
Raise(st, err) ==
    [state |-> st, ok |-> FALSE, err |-> err, val |-> -1, panic |-> FALSE]
\* handle_error!(self, err): latch the error, then return it
handle_error(err) ==
    [state |-> ErrState(err), ok |-> FALSE, err |-> err, val |-> -1, panic |-> FALSE]
Panic(st) ==
    [state |-> st, ok |-> FALSE, err |-> NoError, val |-> -1, panic |-> TRUE]

DensityMatrixSimulator_new(number_of_qubits) ==
    LET density_matrix == DensityMatrix_new(number_of_qubits)
    IN  [state |-> OkState(density_matrix), dim |-> density_matrix.dim]

\* apply_operation returning the renormalization error with `?`, not latching it
apply_operation_unlatched(st, operation, qubits) ==
    IF ~st.ok THEN Raise(st, st.err)
    ELSE LET a == apply_operation_matrix(st.dm, operation.matrix, qubits)
         IN  IF ~a.ok THEN Raise(st, a.err)
             ELSE IF ~trace_assert(a.dm) THEN Panic(OkState(a.dm))
             ELSE LET r == renormalize(a.dm)
                  IN  IF ~r.ok THEN Raise(OkState(a.dm), r.err)
                      ELSE Done(OkState(r.dm), 0)

\* apply_operation dropping the error of apply_operation_matrix, not returning it
apply_operation_ignores_kernel_error(st, operation, qubits) ==
    IF ~st.ok THEN Raise(st, st.err)
    ELSE LET a == apply_operation_matrix(st.dm, operation.matrix, qubits)
         IN  IF ~a.ok THEN Done(st, 0)
             ELSE IF ~trace_assert(a.dm) THEN Panic(OkState(a.dm))
             ELSE LET r == renormalize(a.dm)
                  IN  IF ~r.ok THEN handle_error(r.err)
                      ELSE Done(OkState(r.dm), 0)

\* apply_operation handing the error of apply_operation_matrix to handle_error!
apply_operation_latches_kernel_error(st, operation, qubits) ==
    IF ~st.ok THEN Raise(st, st.err)
    ELSE LET a == apply_operation_matrix(st.dm, operation.matrix, qubits)
         IN  IF ~a.ok THEN handle_error(a.err)
             ELSE IF ~trace_assert(a.dm) THEN Panic(OkState(a.dm))
             ELSE LET r == renormalize(a.dm)
                  IN  IF ~r.ok THEN handle_error(r.err)
                      ELSE Done(OkState(r.dm), 0)

apply_operation(st, operation, qubits) ==
    IF ~st.ok THEN Raise(st, st.err)
    ELSE LET a == apply_operation_matrix(st.dm, operation.matrix, qubits)
         IN  IF ~a.ok THEN Raise(st, a.err)
             ELSE IF ~trace_assert(a.dm) THEN Panic(OkState(a.dm))
             ELSE LET r == renormalize(a.dm)
                  IN  IF ~r.ok THEN handle_error(r.err)
                      ELSE Done(OkState(r.dm), 0)

\* apply_instrument reporting a latched simulator as a zero-probability event
apply_instrument_relatches(st, instrument, qubits) ==
    IF ~st.ok THEN handle_error(ProbabilityZeroEvent)
    ELSE LET a == apply_operation_matrix(st.dm, instrument.non_selective_operation_matrix,
                                         qubits)
         IN  IF ~a.ok THEN Raise(st, a.err)
             ELSE IF ~trace_assert(a.dm) THEN Panic(OkState(a.dm))
             ELSE LET r == renormalize(a.dm)
                  IN  IF ~r.ok THEN handle_error(r.err)
                      ELSE Done(OkState(r.dm), 0)

\* apply_instrument applying the matrix of the instrument's first operation
apply_instrument_first_operation(st, instrument, qubits) ==
    IF ~st.ok THEN Raise(st, st.err)
    ELSE LET a == apply_operation_matrix(st.dm, instrument.operations[1].matrix, qubits)
         IN  IF ~a.ok THEN Raise(st, a.err)
             ELSE IF ~trace_assert(a.dm) THEN Panic(OkState(a.dm))
             ELSE LET r == renormalize(a.dm)
                  IN  IF ~r.ok THEN handle_error(r.err)
                      ELSE Done(OkState(r.dm), 0)

apply_instrument(st, instrument, qubits) ==
    IF ~st.ok THEN Raise(st, st.err)
    ELSE LET a == apply_operation_matrix(st.dm, instrument.non_selective_operation_matrix,
                                         qubits)
         IN  IF ~a.ok THEN Raise(st, a.err)
             ELSE IF ~trace_assert(a.dm) THEN Panic(OkState(a.dm))
             ELSE LET r == renormalize(a.dm)
                  IN  IF ~r.ok THEN handle_error(r.err)
                      ELSE Done(OkState(r.dm), 0)

RECURSIVE sample_loop_no_break(_, _, _, _, _, _, _, _, _)
RECURSIVE sample_loop_keeps_first(_, _, _, _, _, _, _, _, _)
RECURSIVE sample_loop(_, _, _, _, _, _, _, _, _)
\* the loop without `if summed_probability > random_sample { break; }`
sample_loop_no_break(dm, instrument, qubits, random_sample, total_effect_trace, outcome, last_non_zero_trace_outcome, last_non_zero_trace, summed_probability) ==
    IF outcome >= Len(instrument.operations)
    THEN [ok |-> TRUE, panic |-> FALSE, err |-> NoError, evaluated |-> outcome,
          last_non_zero_trace_outcome |-> last_non_zero_trace_outcome,
          last_non_zero_trace |-> last_non_zero_trace,
          summed_probability |-> summed_probability]
    ELSE LET k == apply_kernel(dm.data,
                               instrument.operations[outcome + 1].effect_matrix_transpose,
                               qubits)
             tmp_state == [dm EXCEPT !.data = k.data]
             outcome_trace == trace(tmp_state)
         IN  IF ~k.ok
             THEN [ok |-> FALSE, panic |-> FALSE, err |-> k.err, evaluated |-> outcome,
                   last_non_zero_trace_outcome |-> last_non_zero_trace_outcome,
                   last_non_zero_trace |-> last_non_zero_trace,
                   summed_probability |-> summed_probability]
             ELSE IF ~trace_assert(tmp_state)
             THEN [ok |-> FALSE, panic |-> TRUE, err |-> NoError, evaluated |-> outcome,
                   last_non_zero_trace_outcome |-> last_non_zero_trace_outcome,
                   last_non_zero_trace |-> last_non_zero_trace,
                   summed_probability |-> summed_probability]
             ELSE sample_loop_no_break(
                      dm, instrument, qubits, random_sample, total_effect_trace,
                      outcome + 1,
                      IF RLe(TOLERANCE, outcome_trace)
                          THEN outcome ELSE last_non_zero_trace_outcome,
                      IF RLe(TOLERANCE, outcome_trace)
                          THEN outcome_trace ELSE last_non_zero_trace,
                      RAdd(summed_probability, RDiv(outcome_trace, total_effect_trace)))

\* the loop recording the first outcome with a trace >= TOLERANCE, not the last
sample_loop_keeps_first(dm, instrument, qubits, random_sample, total_effect_trace, outcome, last_non_zero_trace_outcome, last_non_zero_trace, summed_probability) ==
    IF outcome >= Len(instrument.operations) \/ RLt(random_sample, summed_probability)
    THEN [ok |-> TRUE, panic |-> FALSE, err |-> NoError, evaluated |-> outcome,
          last_non_zero_trace_outcome |-> last_non_zero_trace_outcome,
          last_non_zero_trace |-> last_non_zero_trace,
          summed_probability |-> summed_probability]
    ELSE LET k == apply_kernel(dm.data,
                               instrument.operations[outcome + 1].effect_matrix_transpose,
                               qubits)
             tmp_state == [dm EXCEPT !.data = k.data]
             outcome_trace == trace(tmp_state)
         IN  IF ~k.ok
             THEN [ok |-> FALSE, panic |-> FALSE, err |-> k.err, evaluated |-> outcome,
                   last_non_zero_trace_outcome |-> last_non_zero_trace_outcome,
                   last_non_zero_trace |-> last_non_zero_trace,
                   summed_probability |-> summed_probability]
             ELSE IF ~trace_assert(tmp_state)
             THEN [ok |-> FALSE, panic |-> TRUE, err |-> NoError, evaluated |-> outcome,
                   last_non_zero_trace_outcome |-> last_non_zero_trace_outcome,
                   last_non_zero_trace |-> last_non_zero_trace,
                   summed_probability |-> summed_probability]
             ELSE sample_loop_keeps_first(dm, instrument, qubits, random_sample, total_effect_trace,
                              outcome + 1,
                              IF RLe(TOLERANCE, outcome_trace) /\ RLt(last_non_zero_trace, TOLERANCE)
                                  THEN outcome ELSE last_non_zero_trace_outcome,
                              IF RLe(TOLERANCE, outcome_trace) /\ RLt(last_non_zero_trace, TOLERANCE)
                                  THEN outcome_trace ELSE last_non_zero_trace,
                              RAdd(summed_probability,
                                   RDiv(outcome_trace, total_effect_trace)))

\* the `for outcome in 0..instrument.num_operations()` loop
sample_loop(dm, instrument, qubits, random_sample, total_effect_trace, outcome, last_non_zero_trace_outcome, last_non_zero_trace, summed_probability) ==
    IF outcome >= Len(instrument.operations) \/ RLt(random_sample, summed_probability)
    THEN [ok |-> TRUE, panic |-> FALSE, err |-> NoError, evaluated |-> outcome,
          last_non_zero_trace_outcome |-> last_non_zero_trace_outcome,
          last_non_zero_trace |-> last_non_zero_trace,
          summed_probability |-> summed_probability]
    ELSE LET k == apply_kernel(dm.data,
                               instrument.operations[outcome + 1].effect_matrix_transpose,
                               qubits)
             tmp_state == [dm EXCEPT !.data = k.data]
             outcome_trace == trace(tmp_state)
         IN  IF ~k.ok
             THEN [ok |-> FALSE, panic |-> FALSE, err |-> k.err, evaluated |-> outcome,
                   last_non_zero_trace_outcome |-> last_non_zero_trace_outcome,
                   last_non_zero_trace |-> last_non_zero_trace,
                   summed_probability |-> summed_probability]
             ELSE IF ~trace_assert(tmp_state)
             THEN [ok |-> FALSE, panic |-> TRUE, err |-> NoError, evaluated |-> outcome,
                   last_non_zero_trace_outcome |-> last_non_zero_trace_outcome,
                   last_non_zero_trace |-> last_non_zero_trace,
                   summed_probability |-> summed_probability]
             ELSE sample_loop(dm, instrument, qubits, random_sample, total_effect_trace,
                              outcome + 1,
                              IF RLe(TOLERANCE, outcome_trace)
                                  THEN outcome ELSE last_non_zero_trace_outcome,
                              IF RLe(TOLERANCE, outcome_trace)
                                  THEN outcome_trace ELSE last_non_zero_trace,
                              RAdd(summed_probability,
                                   RDiv(outcome_trace, total_effect_trace)))

\* sample_instrument_with_distribution returning ProbabilityZeroEvent without
\* handle_error!
sample_instrument_with_distribution_unlatched(st, instrument, qubits, random_sample) ==
    IF ~st.ok THEN Raise(st, st.err)
    ELSE LET k == apply_kernel(st.dm.data, instrument.total_effect_transposed, qubits)
             tmp_state == [st.dm EXCEPT !.data = k.data]
         IN
         IF ~k.ok THEN Raise(st, k.err)
         ELSE IF ~trace_assert(tmp_state) THEN Panic(st)
         ELSE IF RLt(trace(tmp_state), TOLERANCE) THEN Raise(st, ProbabilityZeroEvent)
         ELSE LET l == sample_loop(st.dm, instrument, qubits, random_sample,
                                   trace(tmp_state), 0, 0, Zero, Zero)
              IN
              IF l.panic THEN Panic(st)
              ELSE IF ~l.ok THEN Raise(st, l.err)
              ELSE IF RLe(RAdd(l.summed_probability, TOLERANCE), random_sample)
                      \/ RLt(l.last_non_zero_trace, TOLERANCE)
              THEN handle_error(FailedToSampleInstrumentOutcome)
              ELSE LET a == apply_operation_matrix(
                                st.dm,
                                instrument.operations[l.last_non_zero_trace_outcome + 1].matrix,
                                qubits)
                   IN
                   IF ~a.ok THEN handle_error(a.err)
                   ELSE LET r == renormalize_with_trace(a.dm, l.last_non_zero_trace)
                        IN  IF ~r.ok THEN handle_error(r.err)
                            ELSE Done(OkState(r.dm), l.last_non_zero_trace_outcome)

\* sample_instrument_with_distribution without `|| last_non_zero_trace < TOLERANCE`
sample_instrument_with_distribution_sum_only(st, instrument, qubits, random_sample) ==
    IF ~st.ok THEN Raise(st, st.err)
    ELSE LET k == apply_kernel(st.dm.data, instrument.total_effect_transposed, qubits)
             tmp_state == [st.dm EXCEPT !.data = k.data]
         IN
         IF ~k.ok THEN Raise(st, k.err)
         ELSE IF ~trace_assert(tmp_state) THEN Panic(st)
         ELSE IF RLt(trace(tmp_state), TOLERANCE) THEN handle_error(ProbabilityZeroEvent)
         ELSE LET l == sample_loop(st.dm, instrument, qubits, random_sample,
                                   trace(tmp_state), 0, 0, Zero, Zero)
              IN
              IF l.panic THEN Panic(st)
              ELSE IF ~l.ok THEN Raise(st, l.err)
              ELSE IF RLe(RAdd(l.summed_probability, TOLERANCE), random_sample)
              THEN handle_error(FailedToSampleInstrumentOutcome)
              ELSE LET a == apply_operation_matrix(
                                st.dm,
                                instrument.operations[l.last_non_zero_trace_outcome + 1].matrix,
                                qubits)
                   IN
                   IF ~a.ok THEN handle_error(a.err)
                   ELSE LET r == renormalize_with_trace(a.dm, l.last_non_zero_trace)
                        IN  IF ~r.ok THEN handle_error(r.err)
                            ELSE Done(OkState(r.dm), l.last_non_zero_trace_outcome)

\* sample_instrument_with_distribution without
\* `summed_probability + TOLERANCE <= random_sample ||`
sample_instrument_with_distribution_trace_only(st, instrument, qubits, random_sample) ==
    IF ~st.ok THEN Raise(st, st.err)
    ELSE LET k == apply_kernel(st.dm.data, instrument.total_effect_transposed, qubits)
             tmp_state == [st.dm EXCEPT !.data = k.data]
         IN
         IF ~k.ok THEN Raise(st, k.err)
         ELSE IF ~trace_assert(tmp_state) THEN Panic(st)
         ELSE IF RLt(trace(tmp_state), TOLERANCE) THEN handle_error(ProbabilityZeroEvent)
         ELSE LET l == sample_loop(st.dm, instrument, qubits, random_sample,
                                   trace(tmp_state), 0, 0, Zero, Zero)
              IN
              IF l.panic THEN Panic(st)
              ELSE IF ~l.ok THEN Raise(st, l.err)
              ELSE IF RLt(l.last_non_zero_trace, TOLERANCE)
              THEN handle_error(FailedToSampleInstrumentOutcome)
              ELSE LET a == apply_operation_matrix(
                                st.dm,
                                instrument.operations[l.last_non_zero_trace_outcome + 1].matrix,
                                qubits)
                   IN
                   IF ~a.ok THEN handle_error(a.err)
                   ELSE LET r == renormalize_with_trace(a.dm, l.last_non_zero_trace)
                        IN  IF ~r.ok THEN handle_error(r.err)
                            ELSE Done(OkState(r.dm), l.last_non_zero_trace_outcome)

sample_instrument_with_distribution(st, instrument, qubits, random_sample) ==
    IF ~st.ok THEN Raise(st, st.err)
    ELSE LET k == apply_kernel(st.dm.data, instrument.total_effect_transposed, qubits)
             tmp_state == [st.dm EXCEPT !.data = k.data]
         IN
         IF ~k.ok THEN Raise(st, k.err)
         ELSE IF ~trace_assert(tmp_state) THEN Panic(st)
         ELSE IF RLt(trace(tmp_state), TOLERANCE) THEN handle_error(ProbabilityZeroEvent)
         ELSE LET l == sample_loop(st.dm, instrument, qubits, random_sample,
                                   trace(tmp_state), 0, 0, Zero, Zero)
              IN
              IF l.panic THEN Panic(st)
              ELSE IF ~l.ok THEN Raise(st, l.err)
              ELSE IF RLe(RAdd(l.summed_probability, TOLERANCE), random_sample)
                      \/ RLt(l.last_non_zero_trace, TOLERANCE)
              THEN handle_error(FailedToSampleInstrumentOutcome)
              ELSE LET a == apply_operation_matrix(
                                st.dm,
                                instrument.operations[l.last_non_zero_trace_outcome + 1].matrix,
                                qubits)
                   IN
                   IF ~a.ok THEN handle_error(a.err)
                   ELSE LET r == renormalize_with_trace(a.dm, l.last_non_zero_trace)
                        IN  IF ~r.ok THEN handle_error(r.err)
                            ELSE Done(OkState(r.dm), l.last_non_zero_trace_outcome)

\* sample_instrument: random_sample is the draw of rand::random()
sample_instrument(st, instrument, qubits, random_sample) ==
    sample_instrument_with_distribution(st, instrument, qubits, random_sample)

\* state(): Result<&DensityMatrix, &Error>
state_ref(st) == IF st.ok THEN Done(st, 0) ELSE Raise(st, st.err)

\* set_state without the comparison of dim
set_state_any_dim(st, dim, new_state) ==
    IF ~trace_assert(new_state) THEN Panic(st)
    ELSE IF ~is_normalized(new_state) THEN Raise(st, InvalidState("not normalized"))
    ELSE IF ~is_hermitian(new_state) THEN Raise(st, InvalidState("not Hermitian"))
    ELSE Done(OkState(new_state), 0)

\* set_state with the Hermiticity check after the assignment
set_state_assign_first(st, dim, new_state) ==
    IF dim # new_state.dim THEN Raise(st, InvalidState("dimensions"))
    ELSE IF ~trace_assert(new_state) THEN Panic(st)
    ELSE IF ~is_normalized(new_state) THEN Raise(st, InvalidState("not normalized"))
    ELSE IF ~is_hermitian(new_state)
    THEN Raise(OkState(new_state), InvalidState("not Hermitian"))
    ELSE Done(OkState(new_state), 0)

\* set_state handing the failed Hermiticity check to handle_error!
set_state_latching(st, dim, new_state) ==
    IF dim # new_state.dim THEN Raise(st, InvalidState("dimensions"))
    ELSE IF ~trace_assert(new_state) THEN Panic(st)
    ELSE IF ~is_normalized(new_state) THEN Raise(st, InvalidState("not normalized"))
    ELSE IF ~is_hermitian(new_state) THEN handle_error(InvalidState("not Hermitian"))
    ELSE Done(OkState(new_state), 0)

set_state(st, dim, new_state) ==
    IF dim # new_state.dim THEN Raise(st, InvalidState("dimensions"))
    ELSE IF ~trace_assert(new_state) THEN Panic(st)
    ELSE IF ~is_normalized(new_state) THEN Raise(st, InvalidState("not normalized"))
    ELSE IF ~is_hermitian(new_state) THEN Raise(st, InvalidState("not Hermitian"))
    ELSE Done(OkState(new_state), 0)

\* trace_change() that resets the factor it reads
trace_change_resetting(st) ==
    IF st.ok THEN Done(OkState([st.dm EXCEPT !.trace_change = One]), 0)
    ELSE Raise(st, st.err)

trace_change(st) == IF st.ok THEN Done(st, 0) ELSE Raise(st, st.err)

\* set_trace rejecting `trace <= TOLERANCE` where the code rejects `trace < TOLERANCE`
set_trace_strict(st, t) ==
    IF RLe(t, TOLERANCE) \/ RLt(TOLERANCE, RSub(t, One)) THEN Raise(st, NotNormalized(t))
    ELSE IF ~st.ok THEN Raise(st, st.err)
    ELSE Done(OkState([st.dm EXCEPT !.trace_change = t]), 0)

\* set_trace handing the rejected trace to handle_error!
set_trace_latching(st, t) ==
    IF RLt(t, TOLERANCE) \/ RLt(TOLERANCE, RSub(t, One)) THEN handle_error(NotNormalized(t))
    ELSE IF ~st.ok THEN Raise(st, st.err)
    ELSE Done(OkState([st.dm EXCEPT !.trace_change = t]), 0)

set_trace(st, t) ==
    IF RLt(t, TOLERANCE) \/ RLt(TOLERANCE, RSub(t, One)) THEN Raise(st, NotNormalized(t))
    ELSE IF ~st.ok THEN Raise(st, st.err)
    ELSE Done(OkState([st.dm EXCEPT !.trace_change = t]), 0)

\* ------------------------------------------------------------------------
\* Inputs of the calls explored
\* ------------------------------------------------------------------------
Half == <<1, 2>>
Quarter == <<1, 4>>
Two == <<2, 1>>

MatI == Mat(2, << <<COne, CZero>>, <<CZero, COne>> >>)
MatX == Mat(2, << <<CZero, COne>>, <<COne, CZero>> >>)
MatS == Mat(2, << <<COne, CZero>>, <<CZero, CI>> >>)
MatP0 == Mat(2, << <<COne, CZero>>, <<CZero, CZero>> >>)
MatP1 == Mat(2, << <<CZero, CZero>>, <<CZero, COne>> >>)
\* diag(1, 1/2): a trace-decreasing Kraus operator (K'K <= I)
MatDamp == Mat(2, << <<COne, CZero>>, <<CZero, CReal(Half)>> >>)

\* controlled X on two qubits, the first one the control
MatCX == Mat(4, << <<COne, CZero, CZero, CZero>>, <<CZero, COne, CZero, CZero>>,
                   <<CZero, CZero, CZero, COne>>, <<CZero, CZero, COne, CZero>> >>)

OperationNames == {"I", "X", "S", "P1", "Damp"}
TwoQubitOperationNames == {"CX"}
OperationNamed ==
    [n \in OperationNames \cup TwoQubitOperationNames |->
        CASE n = "CX" -> Operation(<<MatCX>>)
          [] n = "I" -> Operation(<<MatI>>)
          [] n = "X" -> Operation(<<MatX>>)
          [] n = "S" -> Operation(<<MatS>>)
          [] n = "P1" -> Operation(<<MatP1>>)
          [] n = "Damp" -> Operation(<<MatDamp>>)]

InstrumentNames == {"MeasZ", "OnlyP1"}
InstrumentNamed ==
    [n \in InstrumentNames |->
        CASE n = "MeasZ" -> Instrument(<<Operation(<<MatP0>>), Operation(<<MatP1>>)>>)
          [] n = "OnlyP1" -> Instrument(<<Operation(<<MatP1>>)>>)]

\* the <<operation, qubits>> arguments of apply_operation
OperationArgs ==
    (OperationNames \X {<<0>>}) \cup ({"X", "Damp"} \X {<<1>>})
    \cup {<<"X", <<>> >>, <<"X", <<0, 1>> >>}
\* the <<instrument, qubits>> arguments of apply_instrument
InstrumentArgs == (InstrumentNames \X {<<0>>}) \cup {<<"MeasZ", <<1>> >>}

\* rand::random::<f64>() is uniform over [0, 1)
RandomSamples == {Quarter, <<3, 4>>}
\* the <<instrument, qubits, random_sample>> arguments of
\* sample_instrument_with_distribution; random_sample is any f64
SampleArgs ==
    ({"MeasZ"} \X {<<0>>} \X (RandomSamples \cup {Zero, <<7, 8>>, One, Two, <<-1, 1>>}))
    \cup {<<"OnlyP1", <<0>>, Quarter>>, <<"MeasZ", <<1>>, Quarter>>, <<"MeasZ", <<>>, Quarter>>}

Traces == {<<1, 2 * TolDen>>, TOLERANCE, RAdd(One, TOLERANCE), Two}

Tol == CReal(TOLERANCE)
HalfTolI == <<Zero, <<1, 2 * TolDen>> >>
Rec(dim, n, tc, data) ==
    [dim |-> dim, number_of_qubits |-> n, trace_change |-> tc, data |-> data]
\* the records handed to DensityMatrix::try_from
StateArgNames == {"Plus", "NegTrace", "Skew", "NonHermitian", "NotNormalized",
                  "ImagDiag", "NegImagDiag", "Short", "Overflow", "Bell",
                  "ImagHermitian", "ThreeQubits", "TraceEdge"}
StateArgs ==
    [n \in StateArgNames |->
        CASE n = "Plus" -> Rec(2, 1, One, <<CReal(Half), CReal(Half), CReal(Half), CReal(Half)>>)
          [] n = "NegTrace" -> Rec(2, 1, <<-1, 1>>, <<COne, CZero, CZero, CZero>>)
          [] n = "Skew" -> Rec(2, 1, One, <<CZero, CZero, Tol, COne>>)
          [] n = "NonHermitian" -> Rec(2, 1, One, <<CReal(Half), CReal(Half), CZero, CReal(Half)>>)
          [] n = "NotNormalized" -> Rec(2, 1, One, <<CReal(Half), CZero, CZero, CZero>>)
          [] n = "ImagDiag" -> Rec(2, 1, One, <<COne, CZero, CZero, CI>>)
          [] n = "NegImagDiag" -> Rec(2, 1, One, <<COne, CZero, CZero, CConj(CI)>>)
          [] n = "Short" -> Rec(2, 1, One, <<COne, CZero, CZero>>)
          [] n = "Overflow" -> Rec(2, WordBits + 1, One, <<COne, CZero, CZero, CZero>>)
          [] n = "Bell" -> Rec(4, 2, One,
                               [i \in 1 .. 16 |-> IF i \in {1, 4, 13, 16} THEN CReal(Half) ELSE CZero])
          [] n = "ImagHermitian" -> Rec(4, 2, One,
                               [i \in 1 .. 16 |-> IF i \in {1, 6, 11, 16}
                                                  THEN CAdd(CReal(Quarter), HalfTolI) ELSE CZero])
          [] n = "ThreeQubits" -> Rec(8, 3, One,
                               [i \in 1 .. 64 |-> IF i = 1 THEN COne ELSE CZero])
          [] n = "TraceEdge" -> Rec(2, 1, One, <<COne, CZero, CZero, Tol>>)]

\* largest numerator or denominator of a state explored
MaxNum == 8

SmallR(r) == Abs(r[1]) <= MaxNum /\ r[2] <= MaxNum
SmallState(st) ==
    st.ok => /\ SmallR(st.dm.trace_change)
             /\ \A i \in 1 .. Len(st.dm.data) : SmallR(st.dm.data[i][1]) /\ SmallR(st.dm.data[i][2])

\* ------------------------------------------------------------------------
\* CursorAwareLexer (qsc_parse/src/predict.rs)
\* ------------------------------------------------------------------------
\* lex::Token: a kind and a span lo .. hi
Token(kind, lo, hi) == [kind |-> kind, span |-> [lo |-> lo, hi |-> hi]]
NoToken == Token("", 0, 0)

\* lex::Error is told apart by the span it covers
NoLexError == <<0, 0>>

\* what Lexer::next hands out: Ok(token) or Err(error)
LexOk(token) == [ok |-> TRUE, token |-> token, err |-> NoLexError]
LexErr(e) == [ok |-> FALSE, token |-> NoToken, err |-> e]

\* enum TokenW, and None for the Option around it
TokenW_Token(token) == [w |-> "Token", token |-> token, err |-> NoLexError]
TokenW_Cursor == [w |-> "Cursor", token |-> NoToken, err |-> NoLexError]
TokenW_Error(e) == [w |-> "Error", token |-> NoToken, err |-> e]
TokenW_None == [w |-> "None", token |-> NoToken, err |-> NoLexError]

\* Option<Result<Token, Error>>, the item of the iterator
ItemNone == [some |-> FALSE, ok |-> FALSE, token |-> NoToken, err |-> NoLexError]
ItemOk(token) == [some |-> TRUE, ok |-> TRUE, token |-> token, err |-> NoLexError]
ItemErr(e) == [some |-> TRUE, ok |-> FALSE, token |-> NoToken, err |-> e]

\* the kinds matched by the arm `Ident | Keyword(_) | ClosedBinOp(And | Or)`
WordKinds == {"Ident", "Keyword", "ClosedBinOp(And)", "ClosedBinOp(Or)"}

\* CursorAwareLexer::new; tokens is what the underlying Lexer has still to hand out
CursorAwareLexer_new(input, cursor_offset) ==
    [at_cursor |-> FALSE,
     tokens |-> input,
     cursor_offset |-> cursor_offset,
     state |-> IF cursor_offset = 0 THEN "Cursor" ELSE "Normal"]

\* the first match of next(): the lexer it leaves and the TokenW it computes
Matched(self, tokens, st, r) == [self |-> [self EXCEPT !.tokens = tokens, !.state = st], r |-> r]

\* next() whose State::Cursor arm leaves the state as it is
next_match_cursor_stays(self) ==
    CASE self.state = "Normal" ->
            IF self.tokens # <<>>
            THEN LET next_token == Head(self.tokens)
                     token == next_token.token
                     rest == Tail(self.tokens)
                 IN  IF next_token.ok
                     THEN IF token.span.lo >= self.cursor_offset
                          THEN Matched(self, rest, "End", TokenW_Cursor)
                          ELSE IF token.span.lo < self.cursor_offset
                                  /\ token.span.hi >= self.cursor_offset
                          THEN IF token.kind \in WordKinds
                               THEN Matched(self, rest, "End", TokenW_Cursor)
                               ELSE IF token.span.hi = self.cursor_offset
                               THEN Matched(self, rest, "Cursor", TokenW_Token(token))
                               ELSE Matched(self, rest, "End", TokenW_None)
                          ELSE Matched(self, rest, "Normal", TokenW_Token(token))
                     ELSE Matched(self, rest, "Normal", TokenW_Error(next_token.err))
            ELSE Matched(self, <<>>, "End", TokenW_Cursor)
      [] self.state = "Cursor" -> Matched(self, self.tokens, "Cursor", TokenW_Cursor)
      [] self.state = "End" -> Matched(self, self.tokens, "End", TokenW_None)

\* next() comparing `token.span.hi > self.cursor_offset` where the code compares
\* with >=
next_match_hi_strict(self) ==
    CASE self.state = "Normal" ->
            IF self.tokens # <<>>
            THEN LET next_token == Head(self.tokens)
                     token == next_token.token
                     rest == Tail(self.tokens)
                 IN  IF next_token.ok
                     THEN IF token.span.lo >= self.cursor_offset
                          THEN Matched(self, rest, "End", TokenW_Cursor)
                          ELSE IF token.span.lo < self.cursor_offset
                                  /\ token.span.hi > self.cursor_offset
                          THEN IF token.kind \in WordKinds
                               THEN Matched(self, rest, "End", TokenW_Cursor)
                               ELSE IF token.span.hi = self.cursor_offset
                               THEN Matched(self, rest, "Cursor", TokenW_Token(token))
                               ELSE Matched(self, rest, "End", TokenW_None)
                          ELSE Matched(self, rest, "Normal", TokenW_Token(token))
                     ELSE Matched(self, rest, "Normal", TokenW_Error(next_token.err))
            ELSE Matched(self, <<>>, "End", TokenW_Cursor)
      [] self.state = "Cursor" -> Matched(self, self.tokens, "End", TokenW_Cursor)
      [] self.state = "End" -> Matched(self, self.tokens, "End", TokenW_None)

\* next() ending without the cursor when the underlying lexer is exhausted
next_match_end_silent(self) ==
    CASE self.state = "Normal" ->
            IF self.tokens # <<>>
            THEN LET next_token == Head(self.tokens)
                     token == next_token.token
                     rest == Tail(self.tokens)
                 IN  IF next_token.ok
                     THEN IF token.span.lo >= self.cursor_offset
                          THEN Matched(self, rest, "End", TokenW_Cursor)
                          ELSE IF token.span.lo < self.cursor_offset
                                  /\ token.span.hi >= self.cursor_offset
                          THEN IF token.kind \in WordKinds
                               THEN Matched(self, rest, "End", TokenW_Cursor)
                               ELSE IF token.span.hi = self.cursor_offset
                               THEN Matched(self, rest, "Cursor", TokenW_Token(token))
                               ELSE Matched(self, rest, "End", TokenW_None)
                          ELSE Matched(self, rest, "Normal", TokenW_Token(token))
                     ELSE Matched(self, rest, "Normal", TokenW_Error(next_token.err))
            ELSE Matched(self, <<>>, "End", TokenW_None)
      [] self.state = "Cursor" -> Matched(self, self.tokens, "End", TokenW_Cursor)
      [] self.state = "End" -> Matched(self, self.tokens, "End", TokenW_None)

\* `let r = match self.state { .. }`: self.tokens.next() takes the head of what
\* the underlying lexer has left, None when nothing is left
next_match(self) ==
    CASE self.state = "Normal" ->
            IF self.tokens # <<>>
            THEN LET next_token == Head(self.tokens)
                     token == next_token.token
                     rest == Tail(self.tokens)
                 IN  IF next_token.ok
                     THEN IF token.span.lo >= self.cursor_offset
                          THEN Matched(self, rest, "End", TokenW_Cursor)
                          ELSE IF token.span.lo < self.cursor_offset
                                  /\ token.span.hi >= self.cursor_offset
                          THEN IF token.kind \in WordKinds
                               THEN Matched(self, rest, "End", TokenW_Cursor)
                               ELSE IF token.span.hi = self.cursor_offset
                               THEN Matched(self, rest, "Cursor", TokenW_Token(token))
                               ELSE Matched(self, rest, "End", TokenW_None)
                          ELSE Matched(self, rest, "Normal", TokenW_Token(token))
                     ELSE Matched(self, rest, "Normal", TokenW_Error(next_token.err))
            ELSE Matched(self, <<>>, "End", TokenW_Cursor)
      [] self.state = "Cursor" -> Matched(self, self.tokens, "End", TokenW_Cursor)
      [] self.state = "End" -> Matched(self, self.tokens, "End", TokenW_None)

\* Iterator::next of CursorAwareLexer: the second match turns r into the item
\* returned and at_cursor
next(self) ==
    LET m == next_match(self)
        result == CASE m.r.w = "Token" -> ItemOk(m.r.token)
                    [] m.r.w = "Error" -> ItemErr(m.r.err)
                    [] OTHER -> ItemNone
        at_cursor == (m.r.w = "Cursor")
    IN  [self |-> [m.self EXCEPT !.at_cursor = at_cursor], result |-> result]

\* ------------------------------------------------------------------------
\* The simulator as a state machine: one action per public method
\* ------------------------------------------------------------------------
VARIABLES
    state,            \* DensityMatrixSimulator.state
    dim,              \* DensityMatrixSimulator.dim
    panicked,         \* a call has panicked
    call,             \* the last call: its method, its arguments, self.state on entry
    ret,              \* what the last call returned
    twin,             \* a second simulator, when two are driven side by side
    lexer,            \* a CursorAwareLexer
    iteration         \* the input of the lexer and what its last call of next() did

vars == <<state, dim, panicked, call, ret, twin, lexer, iteration>>

\* no lexer is driven while a simulator is
NoLexer == CursorAwareLexer_new(<<>>, 0)
NoIteration ==
    [input |-> <<>>, called |-> FALSE, entry |-> NoLexer, result |-> ItemNone, reports |-> 0]

Call(op) ==
    [op |-> op, operation |-> "", instrument |-> "", qubits |-> <<>>, random_sample |-> Zero,
     trace |-> Zero, new_state |-> "", number_of_qubits |-> 0, entry |-> state]

Returned(r) == [ok |-> r.ok, err |-> r.err, val |-> r.val]

Step(r, c) ==
    /\ ~panicked
    /\ SmallState(r.state)
    /\ state' = r.state
    /\ ret' = Returned(r)
    /\ panicked' = r.panic
    /\ call' = c
    /\ UNCHANGED <<dim, twin, lexer, iteration>>

\* the binding's new(number_of_qubits, seed): seed is an unused variable
binding_new(number_of_qubits, seed) == DensityMatrixSimulator_new(number_of_qubits)

\* the seed the binding takes when none is given
DefaultSeed == 42

\* the second simulator: the seed it was constructed with, its state, what its
\* last call returned and whether a call on it has panicked
Twin(seed, st) ==
    [seed |-> seed, state |-> st, ret |-> [ok |-> TRUE, err |-> NoError, val |-> 0],
     panicked |-> FALSE]

\* a single simulator is driven: there is no second one
NoTwin == Twin(DefaultSeed, ErrState(NoError))

\* the simulator right after DensityMatrixSimulator::new(number_of_qubits)
Constructed(number_of_qubits) ==
    /\ lexer = NoLexer /\ iteration = NoIteration
    /\ twin = NoTwin
    /\ state = DensityMatrixSimulator_new(number_of_qubits).state
    /\ dim = DensityMatrixSimulator_new(number_of_qubits).dim
    /\ panicked = FALSE
    /\ call = [op |-> "new", operation |-> "", instrument |-> "", qubits |-> <<>>,
               random_sample |-> Zero, trace |-> Zero, new_state |-> "",
               number_of_qubits |-> number_of_qubits,
               entry |-> DensityMatrixSimulator_new(number_of_qubits).state]
    /\ ret = [ok |-> TRUE, err |-> NoError, val |-> 0]

\* the number_of_qubits handed to new: one qubit, and a count past the word size
QubitCounts == {1, WordBits + 1}

\* `1 << number_of_qubits` in DensityMatrix::new panics when the build checks
\* overflow, and then there is no simulator; otherwise the shift wraps
Init ==
    \E n \in QubitCounts, checks \in BOOLEAN :
        /\ ~(checks /\ ShlOverflows(n))
        /\ Constructed(n)

ApplyOperation ==
    \E a \in OperationArgs :
        Step(apply_operation(state, OperationNamed[a[1]], a[2]),
             [Call("apply_operation") EXCEPT !.operation = a[1], !.qubits = a[2]])

ApplyInstrument ==
    \E a \in InstrumentArgs :
        Step(apply_instrument(state, InstrumentNamed[a[1]], a[2]),
             [Call("apply_instrument") EXCEPT !.instrument = a[1], !.qubits = a[2]])

\* sample_instrument draws random_sample itself
SampleInstrument ==
    \E a \in InstrumentArgs, u \in RandomSamples :
        Step(sample_instrument(state, InstrumentNamed[a[1]], a[2], u),
             [Call("sample_instrument") EXCEPT !.instrument = a[1], !.qubits = a[2],
                                               !.random_sample = u])

\* sample_instrument_with_distribution sampling with a draw of its own, as
\* sample_instrument does, in place of the random_sample it is given
SampleInstrumentWithDistributionOwnDraw ==
    \E a \in SampleArgs, u \in RandomSamples :
        Step(sample_instrument_with_distribution(state, InstrumentNamed[a[1]], a[2], u),
             [Call("sample_instrument_with_distribution")
                 EXCEPT !.instrument = a[1], !.qubits = a[2], !.random_sample = a[3]])

SampleInstrumentWithDistribution ==
    \E a \in SampleArgs :
        Step(sample_instrument_with_distribution(state, InstrumentNamed[a[1]], a[2], a[3]),
             [Call("sample_instrument_with_distribution")
                 EXCEPT !.instrument = a[1], !.qubits = a[2], !.random_sample = a[3]])

State == Step(state_ref(state), Call("state"))

TraceChange == Step(trace_change(state), Call("trace_change"))

SetTrace ==
    \E t \in Traces :
        Step(set_trace(state, t), [Call("set_trace") EXCEPT !.trace = t])

\* the build checks shifts for overflow or not, once for all calls: a state
\* whose number_of_qubits overflows the shift was accepted by try_from, so the
\* build it lives in does not check
BuildChecks == IF state.ok /\ ShlOverflows(state.dm.number_of_qubits) THEN {FALSE} ELSE BOOLEAN

\* the record is converted with try_from, then handed to set_state; whether the
\* shift in try_from is checked for overflow depends on the build
SetState ==
    \E n \in StateArgNames, checks \in BuildChecks :
        LET a == StateArgs[n]
            c == try_from(a.dim, a.number_of_qubits, a.trace_change, a.data, checks)
        IN  IF c.panic
            THEN Step(Panic(state), [Call("try_from") EXCEPT !.new_state = n])
            ELSE IF ~c.some
            THEN Step(Raise(state, InvalidDensityMatrix), [Call("try_from") EXCEPT !.new_state = n])
            ELSE Step(set_state(state, dim, c.dm), [Call("set_state") EXCEPT !.new_state = n])

\* the binding's set_state(get_state()): get_state copies the fields of the
\* state into a record, set_state converts the record with try_from
DensityMatrix_from(dm) == Rec(dm.dim, dm.number_of_qubits, dm.trace_change, dm.data)

GetStateSetState ==
    \E checks \in BuildChecks :
        IF ~state.ok
        THEN Step(Raise(state, state.err), Call("get_state"))
        ELSE LET a == DensityMatrix_from(state.dm)
                 c == try_from(a.dim, a.number_of_qubits, a.trace_change, a.data, checks)
             IN  IF c.panic
                 THEN Step(Panic(state), Call("get_state_try_from"))
                 ELSE IF ~c.some
                 THEN Step(Raise(state, InvalidDensityMatrix), Call("get_state_try_from"))
                 ELSE Step(set_state(state, dim, c.dm), Call("get_state_set_state"))

Next ==
    \/ ApplyOperation
    \/ ApplyInstrument
    \/ SampleInstrument
    \/ SampleInstrumentWithDistribution
    \/ State
    \/ TraceChange
    \/ SetTrace
    \/ SetState
    \/ GetStateSetState

Spec == Init /\ [][Next]_vars

\* ------------------------------------------------------------------------
\* A 2-qubit simulator
\* ------------------------------------------------------------------------
TwoQubitInit == Constructed(2)

TwoQubitOperationArgs ==
    ({"X", "S", "Damp"} \X {<<0>>, <<1>>}) \cup ({"CX"} \X {<<0, 1>>, <<1, 0>>})

TwoQubitApplyOperation ==
    \E a \in TwoQubitOperationArgs :
        Step(apply_operation(state, OperationNamed[a[1]], a[2]),
             [Call("apply_operation") EXCEPT !.operation = a[1], !.qubits = a[2]])

TwoQubitInstrumentArgs == {"MeasZ"} \X {<<0>>, <<1>>}

TwoQubitApplyInstrument ==
    \E a \in TwoQubitInstrumentArgs :
        Step(apply_instrument(state, InstrumentNamed[a[1]], a[2]),
             [Call("apply_instrument") EXCEPT !.instrument = a[1], !.qubits = a[2]])

TwoQubitSampleInstrumentWithDistribution ==
    \E a \in TwoQubitInstrumentArgs, u \in RandomSamples :
        Step(sample_instrument_with_distribution(state, InstrumentNamed[a[1]], a[2], u),
             [Call("sample_instrument_with_distribution")
                 EXCEPT !.instrument = a[1], !.qubits = a[2], !.random_sample = u])

TwoQubitStateArgNames == {"Bell", "Plus"}

TwoQubitSetState ==
    \E n \in TwoQubitStateArgNames, checks \in BuildChecks :
        LET a == StateArgs[n]
            c == try_from(a.dim, a.number_of_qubits, a.trace_change, a.data, checks)
        IN  /\ c.some
            /\ Step(set_state(state, dim, c.dm), [Call("set_state") EXCEPT !.new_state = n])

TwoQubitNext ==
    \/ TwoQubitApplyOperation
    \/ TwoQubitApplyInstrument
    \/ TwoQubitSampleInstrumentWithDistribution
    \/ TwoQubitSetState

TwoQubitSpec == TwoQubitInit /\ [][TwoQubitNext]_vars

\* ------------------------------------------------------------------------
\* What a call raises in Python (pip/src/noisy_simulator.rs)
\* ------------------------------------------------------------------------
\* Error::to_string(): the error kind with its payload
to_string(err) ==
    CASE err.kind \in {"InvalidState", "KernelError", "InvalidDensityMatrix"} -> <<err.kind, err.msg>>
      [] err.kind = "NotNormalized" -> <<err.kind, err.value>>
      [] OTHER -> <<err.kind>>

NoException == [kind |-> "None", message |-> <<>>]
SimulationError(message) == [kind |-> "SimulationError", message |-> message]
\* a panic of the Rust code under a #[pymethods] method is raised as
\* pyo3's PanicException
PanicException == [kind |-> "PanicException", message |-> <<>>]

\* .map_err(|e| SimulationError::new_err(e.to_string())) on what the last call
\* returned
Raised ==
    IF panicked THEN PanicException
    ELSE IF ~ret.ok THEN SimulationError(to_string(ret.err))
    ELSE NoException

\* ------------------------------------------------------------------------
\* Two simulators constructed through the binding with the same
\* number_of_qubits and the same seed, driven by the same calls
\* ------------------------------------------------------------------------
Seeds == {DefaultSeed, 7}

SeededInit ==
    \E seed \in Seeds :
        /\ lexer = NoLexer /\ iteration = NoIteration
        /\ state = binding_new(1, seed).state
        /\ dim = binding_new(1, seed).dim
        /\ twin = Twin(seed, binding_new(1, seed).state)
        /\ panicked = FALSE
        /\ call = [op |-> "new", operation |-> "", instrument |-> "", qubits |-> <<>>,
                   random_sample |-> Zero, trace |-> Zero, new_state |-> "",
                   number_of_qubits |-> 1, entry |-> binding_new(1, seed).state]
        /\ ret = [ok |-> TRUE, err |-> NoError, val |-> 0]

\* the same call on both simulators: r is its outcome on the first, t on the second
TwinStep(r, t, c) ==
    /\ ~panicked /\ ~twin.panicked
    /\ SmallState(r.state) /\ SmallState(t.state)
    /\ state' = r.state
    /\ ret' = Returned(r)
    /\ panicked' = r.panic
    /\ twin' = [twin EXCEPT !.state = t.state, !.ret = Returned(t), !.panicked = t.panic]
    /\ call' = c
    /\ UNCHANGED <<dim, lexer, iteration>>

TwinOperationArgs == {"X", "Damp", "P1"} \X {<<0>>}

TwinApplyOperation ==
    \E a \in TwinOperationArgs :
        TwinStep(apply_operation(state, OperationNamed[a[1]], a[2]),
                 apply_operation(twin.state, OperationNamed[a[1]], a[2]),
                 [Call("apply_operation") EXCEPT !.operation = a[1], !.qubits = a[2]])

\* each sample_instrument call draws its own rand::random()
TwinSampleInstrument ==
    \E a \in InstrumentArgs, u \in RandomSamples, v \in RandomSamples :
        TwinStep(sample_instrument(state, InstrumentNamed[a[1]], a[2], u),
                 sample_instrument(twin.state, InstrumentNamed[a[1]], a[2], v),
                 [Call("sample_instrument") EXCEPT !.instrument = a[1], !.qubits = a[2],
                                                   !.random_sample = u])

TwinStateArgNames == {"Plus", "Skew", "NotNormalized"}

TwinSetState ==
    \E n \in TwinStateArgNames, checks \in BuildChecks :
        LET a == StateArgs[n]
            c == try_from(a.dim, a.number_of_qubits, a.trace_change, a.data, checks)
        IN  /\ c.some
            /\ TwinStep(set_state(state, dim, c.dm), set_state(twin.state, dim, c.dm),
                        [Call("set_state") EXCEPT !.new_state = n])

SeededNext ==
    \/ TwinApplyOperation
    \/ TwinSampleInstrument
    \/ TwinSetState

SeededSpec == SeededInit /\ [][SeededNext]_vars

\* ------------------------------------------------------------------------
\* CursorAwareLexer as a state machine: new, then next() called again and again
\* ------------------------------------------------------------------------
\* offsets of the source text run from 0 to MaxOffset
MaxOffset == 4
\* the underlying lexer hands out at most MaxTokens items
MaxTokens == 3

TokenKinds == WordKinds \cup {"ClosedBinOp(Plus)", "Semi"}

\* spans lo .. hi of one or more characters that start at or after an offset
Spans(from) == {s \in (from .. MaxOffset) \X (from .. MaxOffset) : s[1] < s[2]}

\* what the underlying Lexer hands out for some input: at most n tokens and
\* errors, each starting where the one before ended or later
RECURSIVE TokenStreams(_, _)
TokenStreams(from, n) ==
    IF n = 0 THEN {<<>>}
    ELSE {<<>>}
         \cup UNION {{<<LexOk(Token(k, s[1], s[2]))>> \o rest : rest \in TokenStreams(s[2], n - 1)} :
                        k \in TokenKinds, s \in Spans(from)}
         \cup UNION {{<<LexErr(s)>> \o rest : rest \in TokenStreams(s[2], n - 1)} :
                        s \in Spans(from)}

CursorOffsets == 0 .. MaxOffset

\* no simulator is driven while the lexer is
NoSimulator ==
    /\ state = ErrState(NoError)
    /\ dim = 0
    /\ panicked = FALSE
    /\ call = Call("")
    /\ ret = [ok |-> TRUE, err |-> NoError, val |-> 0]
    /\ twin = NoTwin

LexerInit ==
    /\ NoSimulator
    /\ \E input \in TokenStreams(0, MaxTokens), cursor_offset \in CursorOffsets :
          /\ lexer = CursorAwareLexer_new(input, cursor_offset)
          /\ iteration = [input |-> input,
                          called |-> FALSE,
                          entry |-> CursorAwareLexer_new(input, cursor_offset),
                          result |-> ItemNone,
                          reports |-> 0]

\* one call of next(): iteration keeps the lexer on entry, the item returned
\* and how many calls so far have set at_cursor (counted up to 2)
IteratorNext ==
    /\ lexer' = next(lexer).self
    /\ iteration' = [iteration EXCEPT
                        !.called = TRUE,
                        !.entry = lexer,
                        !.result = next(lexer).result,
                        !.reports = IF next(lexer).self.at_cursor /\ @ < 2 THEN @ + 1 ELSE @]
    /\ UNCHANGED <<state, dim, panicked, call, ret, twin>>

LexerNext == IteratorNext

LexerSpec == LexerInit /\ [][LexerNext]_vars

\* the caller keeps calling next()
LexerFairSpec == LexerInit /\ [][LexerNext]_vars /\ WF_vars(IteratorNext)

\* ------------------------------------------------------------------------
\* Properties.  call.entry is self.state when the last call began, state is
\* self.state when it returned, ret is what it returned.
\* ------------------------------------------------------------------------
StateCalls == {"apply_operation", "apply_instrument", "sample_instrument",
               "sample_instrument_with_distribution"}
MutatingCalls == {"apply_operation", "apply_instrument",
                  "sample_instrument_with_distribution", "set_state", "set_trace"}

\* entry (row, col) of a density matrix
Entry(dm, row, col) == dm.data[dm.dim * row + col + 1]

\* rho[r][c] = conj(rho[c][r]) within the tolerance, for every r and c
HermitianWithinTolerance(dm) ==
    \A r \in Idx(dm.dim) : \A c \in Idx(dm.dim) :
        /\ RLe(RAbs(RSub(Entry(dm, r, c)[1], Entry(dm, c, r)[1])), TOLERANCE)
        /\ RLe(RAbs(RAdd(Entry(dm, r, c)[2], Entry(dm, c, r)[2])), TOLERANCE)

DiagonalSum(dm) == CSumTo([i \in Idx(dm.dim) |-> Entry(dm, i, i)], dm.dim)

\* Tr(rho) = 1 within the tolerance, as a complex number
TraceOneWithinTolerance(dm) ==
    /\ RLe(RAbs(RSub(DiagonalSum(dm)[1], One)), TOLERANCE)
    /\ RLe(RAbs(DiagonalSum(dm)[2]), TOLERANCE)

\* Tr(rho E) for a density matrix rho and a matrix E of the same dimension
TraceOfProduct(dm, E) ==
    CSumTo([k \in Idx(dm.dim * dm.dim) |->
              CMul(Entry(dm, k \div dm.dim, k % dm.dim),
                   E.m[<<k % dm.dim, k \div dm.dim>>])],
           dm.dim * dm.dim)

\* the one-qubit density matrices |0><0|, |1><1| and |+><+|
KetZero == <<COne, CZero, CZero, CZero>>
KetOne == <<CZero, CZero, CZero, COne>>
KetPlus == <<CReal(Half), CReal(Half), CReal(Half), CReal(Half)>>

\* C1: on a latched simulator apply_operation, apply_instrument, sample_instrument
\* and sample_instrument_with_distribution return the latched error and leave
\* the latch as it was, whatever their arguments.
C1_Latch ==
    (call.op \in StateCalls /\ ~call.entry.ok)
        => (~ret.ok /\ ~panicked /\ ret.err = call.entry.err /\ state = call.entry)

\* apply_instrument was called on a simulator latched by a sampling failure
C1_Witness ==
    /\ call.op = "apply_instrument" /\ call.instrument = "MeasZ" /\ call.qubits = <<0>>
    /\ call.entry = ErrState(FailedToSampleInstrumentOutcome)
    /\ ret.err = FailedToSampleInstrumentOutcome
    /\ state = ErrState(FailedToSampleInstrumentOutcome)

\* C2 as stated: whenever apply_operation, apply_instrument,
\* sample_instrument_with_distribution, set_state or set_trace returns an error,
\* the state is afterwards the Err variant holding that error.
C2_Original ==
    (call.op \in MutatingCalls /\ ~ret.ok /\ ~panicked) => state = ErrState(ret.err)

\* C2 amended: a ProbabilityZeroEvent or FailedToSampleInstrumentOutcome returned
\* by apply_operation, apply_instrument or sample_instrument_with_distribution
\* is latched; an error returned by set_state or set_trace leaves the state as
\* it was, and a kernel error returned by apply_operation or apply_instrument
\* on an Ok simulator is not latched.
C2_Latching ==
    /\ (/\ call.op \in StateCalls /\ ~ret.ok /\ ~panicked
        /\ ret.err.kind \in {"ProbabilityZeroEvent", "FailedToSampleInstrumentOutcome"})
           => state = ErrState(ret.err)
    /\ (call.op \in {"set_state", "set_trace"} /\ ~ret.ok /\ ~panicked)
           => state = call.entry
    /\ (/\ call.op \in {"apply_operation", "apply_instrument"} /\ ~ret.ok /\ ~panicked
        /\ call.entry.ok /\ ret.err.kind = "KernelError")
           => state.ok

\* apply_operation met a zero trace on an Ok simulator and latched it
C2_Witness ==
    /\ call.op = "apply_operation" /\ call.operation = "P1" /\ call.entry.ok
    /\ ret.err = ProbabilityZeroEvent
    /\ state = ErrState(ProbabilityZeroEvent)

\* C3: starting from a latched simulator only a set_state call that returns Ok
\* makes the state Ok again; every other call leaves it latched.
C3_OnlySetStateRecovers ==
    (~call.entry.ok /\ state.ok) => (call.op = "set_state" /\ ret.ok)

\* a latched simulator took a set_trace call with an accepted trace and is
\* still latched
C3_Witness ==
    /\ call.op = "set_trace" /\ ~call.entry.ok /\ call.trace = TOLERANCE
    /\ ~state.ok /\ ret.err = state.err

\* C4: set_state with a replacement of the simulator's dim that is Hermitian
\* within the tolerance and has trace 1 within the tolerance returns Ok and
\* makes the replacement the state, from an Ok and from a latched simulator.
C4_SetStateSuccess ==
    (/\ call.op = "set_state"
     /\ StateArgs[call.new_state].dim = dim
     /\ HermitianWithinTolerance(StateArgs[call.new_state])
     /\ TraceOneWithinTolerance(StateArgs[call.new_state]))
        => (ret.ok /\ ~panicked /\ state = OkState(StateArgs[call.new_state]))

\* a latched simulator accepted a replacement that is Hermitian only up to the
\* tolerance
C4_Witness ==
    /\ call.op = "set_state" /\ call.new_state = "Skew" /\ ~call.entry.ok
    /\ ret.ok /\ state = OkState(StateArgs["Skew"])

\* C5: sampling an instrument whose total effect has trace below the tolerance
\* on the state returns and latches ProbabilityZeroEvent, and apply_operation
\* on the simulator so latched returns ProbabilityZeroEvent.
C5_ZeroProbabilityLatching ==
    /\ (/\ call.op = "sample_instrument_with_distribution"
        /\ call.entry.ok /\ call.qubits = <<0>>
        /\ RLt(TraceOfProduct(
                   call.entry.dm,
                   Transpose(InstrumentNamed[call.instrument].total_effect_transposed))[1],
               TOLERANCE))
           => (~ret.ok /\ ~panicked /\ ret.err = ProbabilityZeroEvent
               /\ state = ErrState(ProbabilityZeroEvent))
    /\ (call.op = "apply_operation" /\ call.entry = ErrState(ProbabilityZeroEvent))
           => (~ret.ok /\ ret.err = ProbabilityZeroEvent)

\* the |1> projector instrument was sampled on |0><0|
C5_Witness ==
    /\ call.op = "sample_instrument_with_distribution" /\ call.instrument = "OnlyP1"
    /\ call.entry.ok /\ call.entry.dm.data = KetZero
    /\ ret.err = ProbabilityZeroEvent
    /\ state = ErrState(ProbabilityZeroEvent)

\* C6: on |+><+| the computational-basis instrument sampled with 0.25 returns
\* outcome 0 and leaves |0><0|, sampled with 0.75 returns outcome 1 and leaves
\* |1><1|.
C6_MeasurementSampling ==
    (/\ call.op = "sample_instrument_with_distribution"
     /\ call.instrument = "MeasZ" /\ call.qubits = <<0>>
     /\ call.entry.ok /\ call.entry.dm.number_of_qubits = 1
     /\ call.entry.dm.data = KetPlus)
        => /\ call.random_sample = Quarter
                => (ret.ok /\ ret.val = 0 /\ state.ok /\ state.dm.data = KetZero)
           /\ call.random_sample = <<3, 4>>
                => (ret.ok /\ ret.val = 1 /\ state.ok /\ state.dm.data = KetOne)

\* |+><+| was sampled with 0.25
C6_Witness ==
    /\ call.op = "sample_instrument_with_distribution"
    /\ call.instrument = "MeasZ" /\ call.qubits = <<0>>
    /\ call.entry.ok /\ call.entry.dm.data = KetPlus
    /\ call.random_sample = Quarter
    /\ ret.val = 0 /\ state.ok /\ state.dm.data = KetZero

\* C7 as stated: whenever the state is Ok the density matrix is Hermitian within
\* the tolerance and has trace 1 within the tolerance (every operation and
\* instrument explored satisfies sum K'K <= I).
C7_PhysicalInvariant ==
    (state.ok /\ ~panicked)
        => (HermitianWithinTolerance(state.dm) /\ TraceOneWithinTolerance(state.dm))

\* C8 as stated: whenever the state is Ok, dim = 2^number_of_qubits, data.len =
\* dim * dim and state.dim is the simulator's dim, which is the one set by new.
C8_StructuralInvariant ==
    /\ dim = DensityMatrixSimulator_new(1).dim
    /\ state.ok =>
          /\ state.dm.number_of_qubits <= Log2(state.dm.dim)
          /\ state.dm.dim = 2 ^ state.dm.number_of_qubits
          /\ Len(state.dm.data) = state.dm.dim * state.dm.dim
          /\ state.dm.dim = dim

\* the effect whose trace on the entry state the last call renormalized with
RenormalizationEffect ==
    CASE call.op = "apply_operation" -> OperationNamed[call.operation].effect_matrix
      [] call.op = "apply_instrument" ->
            Transpose(InstrumentNamed[call.instrument].total_effect_transposed)
      [] OTHER -> InstrumentNamed[call.instrument].operations[ret.val + 1].effect_matrix

SuccessfulStateCall == call.op \in StateCalls /\ ret.ok /\ call.entry.ok /\ ~panicked

\* C9 as stated: a successful apply_operation, apply_instrument or sampling call
\* never decreases trace_change.
C9_Original ==
    SuccessfulStateCall
        => RLe(call.entry.dm.trace_change, state.dm.trace_change)

\* C9 amended: a successful apply_operation, apply_instrument or sampling call
\* multiplies trace_change by the trace t = Tr(rho E) >= tolerance it renormalized
\* with, so the magnitude of trace_change does not increase when t <= 1.
C9_TraceChangeProduct ==
    SuccessfulStateCall
        => LET t == TraceOfProduct(call.entry.dm, RenormalizationEffect)[1]
           IN  /\ state.dm.trace_change = RMul(call.entry.dm.trace_change, t)
               /\ RLe(TOLERANCE, t)
               /\ RLe(t, One) => RLe(RAbs(state.dm.trace_change),
                                     RAbs(call.entry.dm.trace_change))

\* a sampling call on |+><+| halved trace_change
C9_Witness ==
    /\ SuccessfulStateCall /\ call.op = "sample_instrument_with_distribution"
    /\ call.entry.dm.data = KetPlus /\ call.entry.dm.trace_change = One
    /\ state.dm.trace_change = Half

\* C10 as stated: trace_change is non-negative whenever the state is Ok.
C10_TraceChangeNonNegative ==
    state.ok => RLe(Zero, state.dm.trace_change)

\* ------------------------------------------------------------------------
\* Reference values, computed from the Kraus operators by matrix algebra
\* ------------------------------------------------------------------------
\* the density matrix as a SquareMatrix
AsMatrix(dm) ==
    [dim |-> dm.dim, m |-> [p \in Idx(dm.dim) \X Idx(dm.dim) |-> Entry(dm, p[1], p[2])]]

\* sum over the Kraus operators K of K rho K'
Evolved(rho, kraus) ==
    MatSum([i \in 1 .. Len(kraus) |-> MatMul(MatMul(kraus[i], rho), Adjoint(kraus[i]))])

MatTrace(A) == CSumTo([i \in Idx(A.dim) |-> A.m[<<i, i>>]], A.dim)

\* the data vector of the matrix A divided by t
Flattened(A, t) ==
    [i \in 1 .. A.dim * A.dim |->
        CScale(A.m[<<(i - 1) \div A.dim, (i - 1) % A.dim>>], RDiv(One, t))]

\* the Kraus operators of an instrument's non-selective evolution (each
\* operation of the instruments explored has one Kraus operator)
InstrumentKraus(instrument) ==
    [j \in 1 .. Len(instrument.operations) |-> instrument.operations[j].kraus_operators[1]]

\* the Kraus operators the last apply_operation or apply_instrument call applied
AppliedKraus ==
    IF call.op = "apply_operation"
    THEN OperationNamed[call.operation].kraus_operators
    ELSE InstrumentKraus(InstrumentNamed[call.instrument])

\* C11: once apply_operation or apply_instrument has applied its matrix, with t
\* the trace of the result: t < tolerance latches ProbabilityZeroEvent, otherwise
\* trace_change is multiplied by t and every entry of the matrix divided by t.
C11_RenormalizationRule ==
    (/\ call.op \in {"apply_operation", "apply_instrument"}
     /\ call.entry.ok /\ ~panicked /\ ret.err.kind # "KernelError")
        => LET applied == Evolved(AsMatrix(call.entry.dm), AppliedKraus)
               t == MatTrace(applied)[1]
           IN  IF RLt(t, TOLERANCE)
               THEN ~ret.ok /\ ret.err = ProbabilityZeroEvent
                    /\ state = ErrState(ProbabilityZeroEvent)
               ELSE /\ ret.ok /\ state.ok
                    /\ state.dm.trace_change = RMul(call.entry.dm.trace_change, t)
                    /\ state.dm.data = Flattened(applied, t)
                    /\ state.dm.dim = call.entry.dm.dim
                    /\ state.dm.number_of_qubits = call.entry.dm.number_of_qubits

\* diag(1, 1/2) was applied to |1><1|: the trace 1/4 is exactly the tolerance
C11_Witness ==
    /\ call.op = "apply_operation" /\ call.operation = "Damp"
    /\ call.entry.ok /\ call.entry.dm.data = KetOne /\ call.entry.dm.trace_change = One
    /\ ret.ok /\ state.ok /\ state.dm.data = KetOne /\ state.dm.trace_change = Quarter

\* the sampling loop of the last call, recomputed on its entry state
SampledOperations == InstrumentNamed[call.instrument].operations
\* Tr(K rho K') of outcome j (0-based)
Marginal(j) ==
    MatTrace(Evolved(AsMatrix(call.entry.dm), SampledOperations[j + 1].kraus_operators))[1]
TotalTrace ==
    MatTrace(Evolved(AsMatrix(call.entry.dm),
                     InstrumentKraus(InstrumentNamed[call.instrument])))[1]
RECURSIVE Cumulative(_)
\* the normalized sum of the marginal traces of outcomes 0 .. j-1
Cumulative(j) ==
    IF j = 0 THEN Zero ELSE RAdd(Cumulative(j - 1), RDiv(Marginal(j - 1), TotalTrace))
\* outcome j is evaluated when no cumulative sum up to it exceeded u
Evaluated(j) == \A i \in 0 .. j : ~RLt(call.random_sample, Cumulative(i))
NumEvaluated == Cardinality({j \in Idx(Len(SampledOperations)) : Evaluated(j)})
Selectable ==
    {j \in Idx(Len(SampledOperations)) : Evaluated(j) /\ RLe(TOLERANCE, Marginal(j))}
LastSelectable == CHOOSE j \in Selectable : \A k \in Selectable : k <= j
SamplingFails ==
    \/ RLe(RAdd(Cumulative(NumEvaluated), TOLERANCE), call.random_sample)
    \/ Selectable = {}
\* the last call was sample_instrument_with_distribution and reached its loop
LoopReached ==
    /\ call.op = "sample_instrument_with_distribution"
    /\ call.entry.ok /\ ~panicked /\ call.qubits = <<0>>
    /\ RLe(TOLERANCE, TotalTrace)

\* C12: sample_instrument_with_distribution returns and latches
\* FailedToSampleInstrumentOutcome exactly when, after the loop, the cumulative
\* sum plus the tolerance is at most u or no evaluated outcome had a marginal
\* trace of at least the tolerance.
C12_SamplingFailure ==
    LoopReached
        => /\ (~ret.ok /\ ret.err = FailedToSampleInstrumentOutcome) <=> SamplingFails
           /\ SamplingFails => state = ErrState(FailedToSampleInstrumentOutcome)

\* sampled with u = -1: the loop breaks before its first outcome
C12_Witness ==
    /\ LoopReached /\ call.random_sample = <<-1, 1>> /\ NumEvaluated = 0
    /\ ret.err = FailedToSampleInstrumentOutcome
    /\ state = ErrState(FailedToSampleInstrumentOutcome)

\* C13: outcomes are evaluated in index order until the cumulative sum exceeds
\* u; the call returns the last evaluated outcome whose marginal trace is at
\* least the tolerance, evolves the state with that outcome's operation and
\* renormalizes with that outcome's marginal trace.
C13_OutcomeSelection ==
    (LoopReached /\ ~SamplingFails /\ ret.err.kind # "KernelError")
        => /\ ret.ok /\ ret.val = LastSelectable
           /\ state.ok
           /\ state.dm.data =
                 Flattened(Evolved(AsMatrix(call.entry.dm),
                                   SampledOperations[LastSelectable + 1].kraus_operators),
                           Marginal(LastSelectable))
           /\ state.dm.trace_change =
                 RMul(call.entry.dm.trace_change, Marginal(LastSelectable))

\* |+><+| sampled with u = 1: both outcomes are evaluated, the last is returned
C13_Witness ==
    /\ LoopReached /\ call.instrument = "MeasZ" /\ call.random_sample = One
    /\ call.entry.dm.data = KetPlus /\ NumEvaluated = 2
    /\ ret.ok /\ ret.val = 1 /\ state.ok /\ state.dm.data = KetOne

C15_DimensionValidation ==
    (call.op = "set_state" /\ StateArgs[call.new_state].dim # dim)
        => (/\ ~ret.ok /\ ~panicked
            /\ ret.err = InvalidState("dimensions")
            /\ state = call.entry)

\* a latched simulator was handed a 3-qubit density matrix
C15_Witness ==
    /\ call.op = "set_state" /\ call.new_state = "ThreeQubits" /\ ~call.entry.ok
    /\ ret.err.kind = "InvalidState" /\ state = call.entry

\* C16 as stated: set_state with a density matrix of the simulator's dimension
\* that is not Hermitian within the tolerance returns InvalidState.
C16_HermiticityValidation ==
    (/\ call.op = "set_state"
     /\ StateArgs[call.new_state].dim = dim
     /\ ~HermitianWithinTolerance(StateArgs[call.new_state]))
        => (~panicked /\ ~ret.ok /\ ret.err.kind = "InvalidState")

\* C17: state() and trace_change() leave the simulator as it was; on a latched
\* simulator both return the latched error.
C17_ReadAccessorsPure ==
    call.op \in {"state", "trace_change"}
        => /\ state = call.entry /\ ~panicked
           /\ dim = DensityMatrixSimulator_new(1).dim
           /\ call.entry.ok => ret.ok
           /\ ~call.entry.ok => (~ret.ok /\ ret.err = call.entry.err)

\* trace_change() was called on a simulator latched by a sampling failure
C17_Witness ==
    /\ call.op = "trace_change"
    /\ call.entry = ErrState(FailedToSampleInstrumentOutcome)
    /\ ~ret.ok /\ ret.err = FailedToSampleInstrumentOutcome
    /\ state = ErrState(FailedToSampleInstrumentOutcome)

\* C18 as stated: in every reachable Ok state, set_state with a copy of the state
\* returned by state() returns Ok and leaves the state as it was.
C18_RoundTrip ==
    (call.op \in {"get_state_set_state", "get_state_try_from"} /\ call.entry.ok)
        => (ret.ok /\ ~panicked /\ state = call.entry)

\* the last call applied the Operation whose only Kraus operator is the identity
IdentityApplied ==
    /\ call.op = "apply_operation" /\ call.operation = "I"
    /\ call.entry.ok /\ ret.ok /\ ~panicked

\* every entry of data is within the tolerance of the entry of the other vector
WithinTolerance(data, other) ==
    /\ Len(data) = Len(other)
    /\ \A i \in 1 .. Len(data) :
          /\ RLe(RAbs(RSub(data[i][1], other[i][1])), TOLERANCE)
          /\ RLe(RAbs(RSub(data[i][2], other[i][2])), TOLERANCE)

C20_Original ==
    (call.op = "set_trace" /\ call.entry.ok)
        => IF RLt(Zero, call.trace) /\ RLe(call.trace, RAdd(One, TOLERANCE))
           THEN ret.ok /\ state = OkState([call.entry.dm EXCEPT !.trace_change = call.trace])
           ELSE ~ret.ok /\ ret.err = NotNormalized(call.trace) /\ state = call.entry

\* C20 amended: on an Ok simulator set_trace(t) returns Ok and sets trace_change
\* to t when tolerance <= t <= 1 + tolerance, and returns NotNormalized(t),
\* leaving the state as it was, for every other t.
C20_SetTraceRange ==
    (call.op = "set_trace" /\ call.entry.ok)
        => IF RLe(TOLERANCE, call.trace) /\ RLe(call.trace, RAdd(One, TOLERANCE))
           THEN ret.ok /\ ~panicked
                /\ state = OkState([call.entry.dm EXCEPT !.trace_change = call.trace])
           ELSE ~ret.ok /\ ret.err = NotNormalized(call.trace) /\ state = call.entry

\* set_trace accepted a trace equal to the tolerance on an Ok simulator
C20_Witness ==
    /\ call.op = "set_trace" /\ call.entry.ok /\ call.trace = TOLERANCE
    /\ call.entry.dm.trace_change = One
    /\ ret.ok /\ state.ok /\ state.dm.trace_change = TOLERANCE

\* C21 as stated: a simulator constructed for N qubits is Ok with dim = 2^N,
\* number_of_qubits = N, data of length dim * dim whose entry 0 is 1 and whose
\* other entries are 0, and trace_change = 1.
C21_InitialState ==
    call.op = "new"
        => /\ state.ok /\ ~panicked
           /\ call.number_of_qubits <= Log2(state.dm.dim)
           /\ state.dm.dim = 2 ^ call.number_of_qubits
           /\ dim = state.dm.dim
           /\ state.dm.number_of_qubits = call.number_of_qubits
           /\ Len(state.dm.data) = state.dm.dim * state.dm.dim
           /\ state.dm.data[1] = COne
           /\ \A i \in 2 .. Len(state.dm.data) : state.dm.data[i] = CZero
           /\ state.dm.trace_change = One

\* C22: on a fresh 1-qubit simulator, applying the operation whose single Kraus
\* operator is [[0,1],[1,0]] to qubit 0 returns Ok and leaves the density matrix
\* [[0,0],[0,1]] with trace_change 1.
C22_XGate ==
    (/\ call.op = "apply_operation" /\ call.operation = "X" /\ call.qubits = <<0>>
     /\ call.entry = DensityMatrixSimulator_new(1).state)
        => /\ ret.ok /\ ~panicked /\ state.ok
           /\ state.dm.data = KetOne
           /\ state.dm.trace_change = One
           /\ state.dm.dim = 2 /\ state.dm.number_of_qubits = 1

\* X was applied to qubit 0 of a fresh 1-qubit simulator
C22_Witness ==
    /\ call.op = "apply_operation" /\ call.operation = "X" /\ call.qubits = <<0>>
    /\ call.entry.ok /\ call.entry.dm.data = KetZero
    /\ call.entry.dm.number_of_qubits = 1 /\ call.entry.dm.trace_change = One
    /\ ret.ok /\ state.ok /\ state.dm.data = KetOne /\ state.dm.trace_change = One

\* the operation apply_instrument is equivalent to: its operation matrix is the
\* sum of the operation matrices of the instrument's outcomes
NonSelectiveOperation(instrument) ==
    [matrix |-> MatSum([j \in 1 .. Len(instrument.operations) |->
                           instrument.operations[j].matrix])]

\* C23: apply_instrument(instr, qubits) leaves the state, returns the value and
\* latches exactly as apply_operation does on the same entry state with an
\* operation whose matrix is the sum of the per-outcome operation matrices.
C23_NonSelectiveEvolution ==
    call.op = "apply_instrument"
        => LET r == apply_operation(call.entry,
                                    NonSelectiveOperation(InstrumentNamed[call.instrument]),
                                    call.qubits)
           IN  state = r.state /\ ret = Returned(r) /\ panicked = r.panic

\* the computational-basis instrument was applied to |+><+| and removed its
\* off-diagonal entries
C23_Witness ==
    /\ call.op = "apply_instrument" /\ call.instrument = "MeasZ" /\ call.qubits = <<0>>
    /\ call.entry.ok /\ call.entry.dm.data = KetPlus
    /\ ret.ok /\ state.ok
    /\ state.dm.data = <<CReal(Half), CZero, CZero, CReal(Half)>>
    /\ state.dm.trace_change = call.entry.dm.trace_change

\* C24 as stated: two simulators constructed through the binding with the same
\* number_of_qubits and the same seed, and driven by the same calls, return the
\* same sample_instrument outcomes.
C24_SeededSampling ==
    (call.op = "sample_instrument" /\ ~panicked /\ ~twin.panicked)
        => ret = twin.ret

\* the number of qubits an operation acts on: log2 of the dimension of its Kraus
\* operators
Arity(operation) == Log2(operation.kraus_operators[1].dim)

ArityMismatch ==
    /\ call.op = "apply_operation"
    /\ Len(call.qubits) # Arity(OperationNamed[call.operation])

\* C25: apply_operation with a qubit list whose length differs from the
\* operation's arity returns an error (the kernel's on an Ok simulator, the
\* latched one otherwise) and never reports success.
C25_ArityRequirement ==
    ArityMismatch
        => /\ ~ret.ok /\ ~panicked
           /\ call.entry.ok => (ret.err.kind = "KernelError" /\ state.ok)
           /\ ~call.entry.ok => (ret.err = call.entry.err /\ state = call.entry)

\* the 1-qubit X operation was applied to an empty qubit list on an Ok simulator
C25_Witness ==
    /\ ArityMismatch /\ call.operation = "X" /\ call.qubits = <<>>
    /\ call.entry.ok /\ ~ret.ok /\ ret.err.kind = "KernelError"

\* the calls of the binding's DensityMatrixSimulator: set_state is try_from
\* followed by set_state, get_state is state() and a copy
BindingCalls == {"apply_operation", "apply_instrument", "sample_instrument", "state",
                 "try_from", "set_state", "set_trace",
                 "get_state", "get_state_try_from", "get_state_set_state"}

\* C26 as stated: every failure of a binding-level method surfaces as
\* SimulationError carrying the error's message, and as no other failure kind.
C26_SingleExceptionKind ==
    (call.op \in BindingCalls /\ (panicked \/ ~ret.ok))
        => Raised = SimulationError(to_string(ret.err))

\* the 2k axes [q0, .., q(k-1), q0+N, .., q(k-1)+N] of a qubit list [q0, .., q(k-1)]
DoubledAxes(N, qubits) ==
    [i \in 1 .. 2 * Len(qubits) |->
        IF i <= Len(qubits) THEN qubits[i] ELSE qubits[i - Len(qubits)] + N]

\* the density matrix dm after the kernel was handed M and axes
KernelApplied(dm, M, axes) == [dm EXCEPT !.data = apply_kernel(dm.data, M, axes).data]

\* the state and trace_change left by renormalizing dm with the trace t
Renormalized(dm, t) ==
    [dm EXCEPT !.trace_change = RMul(dm.trace_change, t),
               !.data = [i \in 1 .. Len(dm.data) |-> CScale(dm.data[i], RDiv(One, t))]]

\* the last call succeeded on an Ok simulator with N = number_of_qubits qubits
AxesHanded == call.op \in StateCalls /\ call.entry.ok /\ ret.ok /\ ~panicked

\* C27: for a qubit list [q0..q(k-1)] on an N-qubit simulator, apply_operation,
\* apply_instrument and the final step of sampling hand the kernel the 2k axes
\* [q0, .., q(k-1), q0+N, .., q(k-1)+N] in that order, and the probability
\* computations of sampling hand it the k axes [q0, .., q(k-1)]: the state left
\* by the call is the one these kernel calls produce.
C27_AxisDoubling ==
    /\ call.op \in StateCalls
          => \A N \in {call.entry.dm.number_of_qubits, state.dm.number_of_qubits} :
                qubits_expanded(N, call.qubits) = DoubledAxes(N, call.qubits)
    /\ (AxesHanded /\ call.op \in {"apply_operation", "apply_instrument"})
          => LET M == IF call.op = "apply_operation"
                      THEN OperationNamed[call.operation].matrix
                      ELSE InstrumentNamed[call.instrument].non_selective_operation_matrix
                 applied == KernelApplied(call.entry.dm, M,
                                DoubledAxes(call.entry.dm.number_of_qubits, call.qubits))
             IN  state.dm = Renormalized(applied, DiagonalSum(applied)[1])
    /\ (AxesHanded /\ call.op \in {"sample_instrument", "sample_instrument_with_distribution"})
          => LET selected == InstrumentNamed[call.instrument].operations[ret.val + 1]
                 weighed == KernelApplied(call.entry.dm, selected.effect_matrix_transpose,
                                          call.qubits)
                 applied == KernelApplied(call.entry.dm, selected.matrix,
                                DoubledAxes(call.entry.dm.number_of_qubits, call.qubits))
             IN  state.dm = Renormalized(applied, DiagonalSum(weighed)[1])

\* controlled X with control qubit 1 and target qubit 0 took the basis state
\* with only qubit 1 set to the one with both qubits set: the kernel was handed
\* the axes [1, 0, 3, 2]
C27_Witness ==
    /\ AxesHanded /\ call.op = "apply_operation"
    /\ call.operation = "CX" /\ call.qubits = <<1, 0>>
    /\ call.entry.dm.number_of_qubits = 2
    /\ qubits_expanded(2, call.qubits) = <<1, 0, 3, 2>>
    /\ call.entry.dm.data # state.dm.data
    /\ state.dm.data = [i \in 1 .. 16 |-> IF i = 16 THEN COne ELSE CZero]

\* the density matrix apply_operation or apply_instrument renormalizes: the entry
\* state with the operation matrix applied
BeforeRenormalize ==
    KernelApplied(call.entry.dm,
                  IF call.op = "apply_operation"
                  THEN OperationNamed[call.operation].matrix
                  ELSE InstrumentNamed[call.instrument].non_selective_operation_matrix,
                  DoubledAxes(call.entry.dm.number_of_qubits, call.qubits))

\* the last call renormalized a density matrix whose trace is exactly 1
RenormalizedUnitTrace ==
    /\ call.op \in {"apply_operation", "apply_instrument"}
    /\ call.entry.ok /\ ret.err.kind # "KernelError"
    /\ DiagonalSum(BeforeRenormalize) = COne

\* C28: renormalizing a density matrix whose trace is exactly 1 returns Ok and
\* leaves every entry of the matrix and trace_change unchanged, both inside
\* apply_operation / apply_instrument and on every Ok state reached.
C28_IdempotentRenormalize ==
    /\ RenormalizedUnitTrace
          => (ret.ok /\ ~panicked /\ state = OkState(BeforeRenormalize))
    /\ (state.ok /\ DiagonalSum(state.dm) = COne)
          => renormalize(state.dm) = [ok |-> TRUE, err |-> NoError, dm |-> state.dm]

\* S was applied to |+><+| with trace_change 1/2: the result has trace exactly 1
\* and renormalize left it and trace_change as they were
C28_Witness ==
    /\ RenormalizedUnitTrace /\ call.op = "apply_operation" /\ call.operation = "S"
    /\ call.entry.dm.data = KetPlus /\ call.entry.dm.trace_change = Half
    /\ ret.ok /\ state = OkState(BeforeRenormalize)
    /\ state.dm.trace_change = Half /\ state.dm.data # KetPlus

\* sample_instrument_with_distribution returned Ok(ret.val) from its loop
SampledOk == LoopReached /\ ret.ok

\* C29 as stated: whenever sample_instrument_with_distribution returns Ok(j), the
\* normalized probabilities of outcomes 0..j-1 sum to at most u and those of
\* outcomes 0..j sum to more than u.
C29_Original ==
    SampledOk
        => /\ RLe(Cumulative(ret.val), call.random_sample)
           /\ RLt(call.random_sample, Cumulative(ret.val + 1))

\* C29 amended: whenever sample_instrument_with_distribution returns Ok(j), with
\* m the number of outcomes evaluated: the normalized probabilities of outcomes
\* 0..j-1 sum to at most u; outcome j has a marginal trace of at least the
\* tolerance and every outcome evaluated after it a marginal trace below the
\* tolerance; u is below the sum over the m evaluated outcomes plus the
\* tolerance; and the sum over outcomes 0..j exceeds u unless an outcome after j
\* was evaluated or the loop ran through every outcome without exceeding u.
C29_SampledInterval ==
    SampledOk
        => /\ RLe(Cumulative(ret.val), call.random_sample)
           /\ ret.val < NumEvaluated
           /\ RLe(TOLERANCE, Marginal(ret.val))
           /\ \A i \in (ret.val + 1) .. (NumEvaluated - 1) : RLt(Marginal(i), TOLERANCE)
           /\ RLt(call.random_sample, RAdd(Cumulative(NumEvaluated), TOLERANCE))
           /\ \/ RLt(call.random_sample, Cumulative(ret.val + 1))
              \/ ret.val + 1 < NumEvaluated
              \/ (/\ NumEvaluated = Len(SampledOperations)
                  /\ RLe(Cumulative(NumEvaluated), call.random_sample))

\* a state with probabilities 4/5 and 1/5 was sampled with u = 7/8: the second
\* outcome crosses u but its marginal trace is below the tolerance, so outcome 0
\* is returned although its cumulative sum 4/5 does not exceed u
C29_Witness ==
    /\ SampledOk /\ call.instrument = "MeasZ" /\ call.random_sample = <<7, 8>>
    /\ Cumulative(1) = <<4, 5>> /\ NumEvaluated = 2
    /\ ret.val = 0 /\ state.ok /\ state.dm.data = KetZero

\* rho[r][c] = conj(rho[c][r]) exactly, and Tr(rho) = 1 + 0i exactly
ValidState(dm) ==
    /\ \A r \in Idx(dm.dim) : \A c \in Idx(dm.dim) : Entry(dm, r, c) = CConj(Entry(dm, c, r))
    /\ DiagonalSum(dm) = COne

\* the effects of the instrument's outcomes sum to the identity
CompleteInstrument(instrument) ==
    \A p \in Idx(2) \X Idx(2) :
        instrument.total_effect_transposed.m[p] = IF p[1] = p[2] THEN COne ELSE CZero

\* C30 as stated: for a Hermitian, unit-trace Ok state, an instrument whose
\* outcome effects sum to the identity and any u in [0, 1),
\* sample_instrument_with_distribution never returns or latches
\* FailedToSampleInstrumentOutcome.
C30_NoSpuriousFailure ==
    (/\ call.op = "sample_instrument_with_distribution"
     /\ call.qubits = <<0>> /\ call.entry.ok /\ call.entry.dm.number_of_qubits = 1
     /\ ValidState(call.entry.dm)
     /\ CompleteInstrument(InstrumentNamed[call.instrument])
     /\ RLe(Zero, call.random_sample) /\ RLt(call.random_sample, One))
        => /\ ret.err # FailedToSampleInstrumentOutcome
           /\ state # ErrState(FailedToSampleInstrumentOutcome)

\* ------------------------------------------------------------------------
\* C31: a set_state call that returns InvalidState (the dimensions differ, the
\* trace is not 1, or the matrix is not Hermitian) leaves the simulator as it
\* was on entry: an Ok state keeps its density matrix and its trace_change, a
\* latched simulator keeps the error it had latched.
C31_FailedSetStateFrame ==
    (/\ call.op \in {"set_state", "get_state_set_state"}
     /\ ~ret.ok /\ ret.err.kind = "InvalidState")
        => /\ ~panicked
           /\ state = call.entry
           /\ call.entry.ok =>
                 /\ state.ok
                 /\ state.dm.data = call.entry.dm.data
                 /\ state.dm.trace_change = call.entry.dm.trace_change
           /\ ~call.entry.ok => (~state.ok /\ state.err = call.entry.err)

\* an Ok simulator whose trace_change is no longer 1 refused a replacement that
\* is not Hermitian and kept its state
C31_Witness ==
    /\ call.op = "set_state" /\ call.new_state = "NonHermitian"
    /\ ret.err = InvalidState("not Hermitian")
    /\ call.entry.ok /\ call.entry.dm.trace_change # One
    /\ state = call.entry

\* ------------------------------------------------------------------------
\* the traces set_trace accepts: tolerance <= t <= 1 + tolerance
AcceptedTrace(t) == RLe(TOLERANCE, t) /\ RLe(t, RAdd(One, TOLERANCE))

\* C32: set_trace changes nothing but trace_change: it never panics, never
\* latches and never recovers, and leaves data, dim and number_of_qubits of an
\* Ok state as they were; with a trace outside the accepted range it returns
\* NotNormalized(t) and leaves the simulator as it was, latched or not; with an
\* accepted trace on a latched simulator it returns the latched error and
\* leaves the latch as it was.
C32_SetTraceFrame ==
    (call.op = "set_trace")
        => /\ ~panicked
           /\ state.ok = call.entry.ok
           /\ call.entry.ok =>
                 state.dm = [call.entry.dm EXCEPT !.trace_change = state.dm.trace_change]
           /\ ~call.entry.ok => state = call.entry
           /\ ~AcceptedTrace(call.trace) =>
                 (~ret.ok /\ ret.err = NotNormalized(call.trace) /\ state = call.entry)
           /\ (AcceptedTrace(call.trace) /\ ~call.entry.ok) =>
                 (~ret.ok /\ ret.err = call.entry.err)

\* a latched simulator was handed a trace above the accepted range: the call
\* returned NotNormalized and the latch is what it was
C32_Witness ==
    /\ call.op = "set_trace" /\ call.trace = Two
    /\ call.entry = ErrState(ProbabilityZeroEvent)
    /\ ret.err = NotNormalized(Two)
    /\ state = ErrState(ProbabilityZeroEvent)

\* ------------------------------------------------------------------------
SamplingCalls == {"sample_instrument", "sample_instrument_with_distribution"}

\* the errors apply_operation_matrix returns on the state on entry for the
\* operations of the sampled instrument and the qubits of the call
FinalApplicationErrors ==
    {apply_operation_matrix(call.entry.dm, SampledOperations[k].matrix, call.qubits).err :
        k \in {j \in 1 .. Len(SampledOperations) :
                 ~apply_operation_matrix(call.entry.dm, SampledOperations[j].matrix,
                                         call.qubits).ok}}

\* C33: the latched error, if any, is ProbabilityZeroEvent,
\* FailedToSampleInstrumentOutcome or a kernel error; an error is latched only
\* by apply_operation, apply_instrument or sampling, which return what they
\* latch; a kernel error is latched only by sampling, and is the error of
\* applying the matrix of one of the instrument's operations; a latch found on
\* entry is still the latch afterwards unless the state is Ok again.
\* NotNormalized and InvalidState are never the latched error.
C33_LatchedErrorKinds ==
    /\ ~state.ok =>
          state.err.kind \in {"ProbabilityZeroEvent", "FailedToSampleInstrumentOutcome",
                              "KernelError"}
    /\ (~state.ok /\ call.entry.ok) =>
          /\ call.op \in StateCalls
          /\ ~ret.ok /\ ret.err = state.err
          /\ call.op \in {"apply_operation", "apply_instrument"} =>
                state.err = ProbabilityZeroEvent
          /\ state.err.kind = "KernelError" =>
                (call.op \in SamplingCalls /\ state.err \in FinalApplicationErrors)
    /\ (~state.ok /\ ~call.entry.ok) => state = call.entry

\* sampling passed the kernel on the total effect and its loop, and latched the
\* kernel error of the final application of the operation matrix
C33_Witness ==
    /\ call.op = "sample_instrument_with_distribution" /\ call.entry.ok
    /\ call.instrument = "MeasZ" /\ call.qubits = <<1>>
    /\ ret.err.kind = "KernelError"
    /\ state = ErrState(ret.err)

\* ------------------------------------------------------------------------
\* C34 as stated: the assertion of DensityMatrix::trace never fires: whenever
\* set_state computes the trace of a density matrix accepted by try_from, the
\* imaginary part of the summed diagonal is within the tolerance of zero, and
\* no call of a public method panics (try_from is a conversion ahead of the
\* call; its shift is the only other place that can panic).
C34_TraceAssertionNeverFires ==
    /\ call.op \notin {"try_from", "get_state_try_from"} => ~panicked
    /\ (call.op = "set_state" /\ StateArgs[call.new_state].dim = dim)
          => RLe(RAbs(trace_sum(StateArgs[call.new_state])[2]), TOLERANCE)

\* ------------------------------------------------------------------------
\* C35 as stated: try_from returns Some only for a record whose dim is
\* 2^number_of_qubits and whose data has dim * dim entries, and never panics:
\* a shift that overflows neither makes it accept a record nor aborts it.
C35_TryFromExact ==
    /\ call.op = "try_from" => ~panicked
    /\ call.op = "set_state" =>
          /\ StateArgs[call.new_state].number_of_qubits <= Log2(StateArgs[call.new_state].dim)
          /\ StateArgs[call.new_state].dim = 2 ^ StateArgs[call.new_state].number_of_qubits
          /\ Len(StateArgs[call.new_state].data)
                = StateArgs[call.new_state].dim * StateArgs[call.new_state].dim

\* ------------------------------------------------------------------------
\* C36: CursorAwareLexer reports the cursor at most once and then stays ended:
\* at most one call of next() sets at_cursor, that call returns None and leaves
\* the state End, and every call of next() made in the state End returns None
\* with at_cursor = false, takes nothing from the underlying lexer and leaves
\* the state End.
C36_CursorReportedOnce ==
    /\ iteration.reports <= 1
    /\ (iteration.called /\ lexer.at_cursor)
          => (~iteration.result.some /\ lexer.state = "End")
    /\ (iteration.called /\ iteration.entry.state = "End")
          => /\ ~iteration.result.some
             /\ ~lexer.at_cursor
             /\ lexer.state = "End"
             /\ lexer.tokens = iteration.entry.tokens

\* next() was called right after the call that reported the cursor, with
\* tokens still to come from the underlying lexer: it returned None, cleared
\* at_cursor and took no token
C36_Witness ==
    /\ iteration.called
    /\ iteration.entry.state = "End" /\ iteration.entry.at_cursor
    /\ iteration.entry.tokens # <<>>
    /\ lexer.tokens = iteration.entry.tokens
    /\ ~iteration.result.some /\ ~lexer.at_cursor
    /\ iteration.reports = 1

\* ------------------------------------------------------------------------
\* C37: CursorAwareLexer never yields a token beyond the cursor: every Ok token
\* returned by next() has span.lo < cursor_offset and span.hi <= cursor_offset;
\* a word token (Ident, Keyword, And, Or) whose span contains or ends at the
\* cursor is never yielded; with cursor_offset = 0 no token is yielded.
C37_NoTokenBeyondCursor ==
    (iteration.called /\ iteration.result.some /\ iteration.result.ok)
        => /\ iteration.result.token.span.lo < lexer.cursor_offset
           /\ iteration.result.token.span.hi <= lexer.cursor_offset
           /\ iteration.result.token.kind \in WordKinds
                 => ~(/\ iteration.result.token.span.lo <= lexer.cursor_offset
                      /\ lexer.cursor_offset <= iteration.result.token.span.hi)
           /\ lexer.cursor_offset # 0

\* a token that is not a word and ends at the cursor was yielded, after a word
\* token before the cursor
C37_Witness ==
    /\ iteration.called /\ iteration.result.some /\ iteration.result.ok
    /\ iteration.result.token.kind = "ClosedBinOp(Plus)"
    /\ iteration.result.token.span.hi = lexer.cursor_offset
    /\ Len(iteration.input) = Len(lexer.tokens) + 2
    /\ iteration.input[1].ok /\ iteration.input[1].token.kind = "Ident"
    /\ lexer.state = "Cursor"

\* ------------------------------------------------------------------------
\* the cursor lies strictly inside a token of the input that is not a word
CursorInsideNonWord ==
    \E i \in 1 .. Len(iteration.input) :
        /\ iteration.input[i].ok
        /\ iteration.input[i].token.kind \notin WordKinds
        /\ iteration.input[i].token.span.lo < lexer.cursor_offset
        /\ lexer.cursor_offset < iteration.input[i].token.span.hi

\* C38: with next() called again and again the lexer reaches the state End, and
\* whenever it is in the state End at_cursor has been set by exactly one call,
\* unless the cursor lies strictly inside a token that is not a word: then it
\* has been set by none.
C38_TerminatesAndFindsCursor ==
    /\ <>(lexer.state = "End")
    /\ [](lexer.state = "End"
            => iteration.reports = IF CursorInsideNonWord THEN 0 ELSE 1)

\* the lexer passed an error and a token before the cursor, met a token that
\* is not a word with the cursor strictly inside, and ended without reporting
\* the cursor
C38_Witness ==
    /\ lexer.state = "End" /\ iteration.called
    /\ CursorInsideNonWord
    /\ iteration.reports = 0
    /\ Len(iteration.input) = 3 /\ lexer.tokens = <<>>
    /\ ~iteration.input[1].ok /\ iteration.input[2].ok
    /\ iteration.entry.state = "Normal"

====
